---- MODULE Spec2Model ----
(***************************************************************************)
(* Generation orchestration and progress streaming of stella-bot.          *)
(*                                                                         *)
(* One invocation of /imagine or /imagine-pro is modelled together with    *)
(* the local backend (health probe, job submission, WebSocket progress     *)
(* stream, cancel endpoint), the remote n8n webhook, the requesting user   *)
(* (cancel button) and the Node.js timers.  Every action is one turn of    *)
(* the event loop: the code that runs between two suspension points.       *)
(* Calls to the Discord API are assumed to succeed.                        *)
(***************************************************************************)
EXTENDS Integers, Sequences, FiniteSets, TLC

(* ---------------------------------------------------------------------- *)
(* Bounds                                                                  *)
(* ---------------------------------------------------------------------- *)

\* number of stream messages the backend sends during one invocation
MaxEvents == 2

(* ---------------------------------------------------------------------- *)
(* Program constants                                                       *)
(* ---------------------------------------------------------------------- *)

\* TaskProgressMonitor.maxReconnectAttempts
maxReconnectAttempts == 3

\* close code used by TaskProgressMonitor.stop ("Normal closure")
NormalClosure == 1000

\* no reconnect timer is pending
NoTimer == 0

\* close codes a closure is reported with: normal, or abnormal (network loss)
CloseCodes == {1000, 1006}

(* ---------------------------------------------------------------------- *)
(* Values                                                                  *)
(* ---------------------------------------------------------------------- *)

Commands == {"imagine", "imaginePro"}

JobIds == {"j1"}

NoJob == "null"

\* message texts, as far as the code looks into them
MsgUndefined == "undefined"

MsgTexts == {"Generating", "Generation failed", "CUDA out of memory",
             "Tarefa foi cancelada pelo usuario", "Task cancelled"}

\* String.prototype.includes, on the texts that occur in the model
Includes(msg, needle) ==
  CASE needle = "cancelada pelo usuario" -> msg = "Tarefa foi cancelada pelo usuario"
    [] needle = "timeout"  -> FALSE
    [] needle = "Timeout"  -> msg = "Timeout aguardando WebSocket para tarefa"
    [] needle = "falhou"   -> FALSE
    [] needle = "failed"   -> msg \in {"Generation failed", "Tarefa failed"}
    [] needle = "CUDA out of memory" -> msg = "CUDA out of memory"
    [] OTHER -> FALSE

TerminalStatuses == {"completed", "failed", "cancelled"}

\* the parsed stream messages (TaskProgress) the backend may send on the
\* stream of job id; out is output_paths: "undefined", "empty" ([]) or "one"
\* (one path); task_id is the job id, or "undefined" in a message without it
EventsOf(id) ==
  { [status |-> "processing", progress |-> p, message |-> "Generating", out |-> "empty",
     task_id |-> id] : p \in {30, 70} }
  \cup
  { [status |-> "processing", progress |-> 30, message |-> "Generating", out |-> "empty",
     task_id |-> "undefined"] }
  \cup
  { [status |-> "completed", progress |-> 100, message |-> "Generating", out |-> o,
     task_id |-> id] : o \in {"undefined", "empty", "one"} }
  \cup
  { [status |-> "failed", progress |-> 70, message |-> m, out |-> "empty",
     task_id |-> id] : m \in {MsgUndefined, "Generation failed", "CUDA out of memory"} }
  \cup
  { [status |-> "cancelled", progress |-> 70, message |-> m, out |-> "empty",
     task_id |-> id] : m \in {MsgUndefined, "Tarefa foi cancelada pelo usuario"} }

\* the messages on the stream of the one job of a single invocation
Events == EventsOf("j1")

IsTerminal(e) == e.status \in TerminalStatuses

\* what the history of the messages keeps: the status
Seen(e) == [status |-> e.status]

\* what the history of the sink keeps: the status and the arrival number
SeenBySink(e, n) == [status |-> e.status, arrival |-> n]

VARIABLES
  cmd,              \* which command runs this invocation
  pc,               \* position of command.execute
  cancelled,        \* the command's local flag `cancelled`
  currentTaskId,    \* the command's local `currentTaskId`
  cmdMonitor,       \* the command's local `monitor`: "null" or "monitor"
  collectorActive,  \* a component collector of this invocation is listening
  buttonVisible,    \* the message still shows the cancel button
  cpc,              \* position of the command's 'collect' handler
  updatesPending,   \* handlers of /imagine awaiting their buttonInteraction.update
  lastRender,       \* kind of the embed of the last edit issued to the reply
  successRendered,  \* an image embed has been written to the reply
  taskId,           \* job id returned by submitGeneration
  taskResolvers,    \* keys of the taskResolvers map
  waitTimer,        \* job ids whose wait-timeout timer is armed
  promise,          \* state of the promise returned by waitForCompletion
  settleCalls,      \* calls of that promise's resolve or reject
  settledBy,        \* what settled the promise first
  errMsg,           \* message of the Error the promise was rejected with
  resolvedOut,      \* output_paths of the status the promise was resolved with
  genResult,        \* data returned by generateImageLocalWithProgressAndMonitor
  wsState,          \* state of the monitor's socket
  isCompleted,      \* TaskProgressMonitor.isCompleted
  reconnectAttempts,\* TaskProgressMonitor.reconnectAttempts
  reconnectTimer,   \* delay in ms of the pending reconnect timer, 0 when none is pending
  stopTimer,        \* number of post-terminal stop timers pending
  received,         \* parsed messages handed to onmessage, in order
  sinkCalls,        \* messages passed to the progress callback, in order
  clickInFlight,    \* the user clicked cancel while the job was in flight
  cancelInFlight,   \* the cancellation was processed while the wait was pending
  cancelRequests,   \* job ids cancelLocalTask was called with
  localOnline,      \* the command's local `localOnline`, "unknown" before the probe
  remoteInvocations,\* calls of generateImage (n8n)
  remoteCalls,      \* HTTP calls made to the n8n webhook
  remoteResult,     \* what generateImage (n8n) returned
  hNow,             \* Date.now(), in ms since the start
  serviceUp,        \* the local backend answers /health with 200
  urlConfigured,    \* LOCAL_AI_URL is set
  serviceStatusCache, \* the entry of serviceStatusCache for the key 'localai'
  hcalls,           \* the calls of checkServiceWithCache('localai', isLocalAIOnline)
  ccall,            \* one call of cancelLocalTask
  dcall,            \* one call of isLocalAIOnline() made by a command itself
  controllerCache,  \* the entry of controllerCache for the key 'health-' + LOCAL_AI_URL
  tConfig,          \* config.AI_TIMEOUT_*, in seconds
  tPrev,            \* the call of calculateTimeout before the last one
  tCur,             \* the last call of calculateTimeout
  fPrev,            \* the call of a result-normalizer function before the last one
  fCur,             \* the last call of a result-normalizer function
  dropLog,          \* how onmessage left the malformed stream message, and when
  gens              \* two /imagine-pro generations in flight at the same time

\* the state of one command invocation
mainVars == <<cmd, pc, cancelled, currentTaskId, cmdMonitor, collectorActive,
              buttonVisible, cpc, updatesPending, lastRender, successRendered, taskId,
              taskResolvers, waitTimer, promise, settleCalls, settledBy, errMsg,
              resolvedOut, genResult, wsState, isCompleted, reconnectAttempts,
              reconnectTimer, stopTimer, received, sinkCalls, clickInFlight,
              cancelInFlight, cancelRequests, localOnline, remoteInvocations,
              remoteCalls, remoteResult>>

\* the calls of the health probe and of the cancellation client
probeVars == <<hNow, serviceUp, urlConfigured, serviceStatusCache, hcalls, ccall,
               dcall>>

\* the cached health probe and the cancellation client
clientVars == <<probeVars, controllerCache>>

\* the timeout estimator
timeoutVars == <<tConfig, tPrev, tCur>>

\* the result normalizer: generateImage (n8n), processImageBase64, the progress texts
pureVars == <<fPrev, fCur>>

auxVars == <<clientVars, timeoutVars, pureVars, dropLog, gens>>

vars == <<mainVars, auxVars>>

cmdVars == <<cancelled, currentTaskId, cmdMonitor, collectorActive,
             buttonVisible, cpc, updatesPending, lastRender, successRendered>>

waitVars == <<taskResolvers, waitTimer, promise, settleCalls, settledBy,
              errMsg, resolvedOut>>

monVars == <<wsState, isCompleted, reconnectAttempts, reconnectTimer, stopTimer>>

remoteVars == <<remoteInvocations, remoteCalls, remoteResult>>

histVars == <<received, sinkCalls, clickInFlight, cancelInFlight,
              cancelRequests, localOnline, remoteVars>>

\* data: null, which has no metadata
NullResult == [kind |-> "null", errType |-> "none", buffer |-> FALSE, requestId |-> "none"]

NoRemoteResult == [kind |-> "none", errType |-> "none", type |-> "none",
                   url |-> FALSE, buffer |-> FALSE]

\* number of calls of checkServiceWithCache
MaxCalls == 2

\* last value of the clock Date.now()
MaxClock == 5000

HealthCalls == 1..MaxCalls

\* serviceStatusCache.get(serviceKey) === undefined
NoCacheEntry == [present |-> FALSE, isOnline |-> FALSE, timestamp |-> 0, lastCheck |-> 0]

\* a call that did not get to getOrCreateController
NoController == 0

\* a call of checkServiceWithCache at its entry
IdleHealthCall ==
  [pc |-> "idle", start |-> 0, cached |-> NoCacheEntry, probed |-> FALSE,
   outcome |-> "none", probeResult |-> "none", result |-> "none",
   cacheAfter |-> NoCacheEntry, abortTimer |-> "none", controller |-> NoController]

\* a call of cancelLocalTask that has not been made
IdleCancelCall ==
  [pc |-> "idle", requests |-> <<>>, deleteStatus |-> "none", deleteBody |-> "none",
   postStatus |-> "none", result |-> "none"]

\* the defaults of envSchema (AI_TIMEOUT_*), in seconds
DefaultTimeoutConfig ==
  [AI_TIMEOUT_BASE |-> 1800, AI_TIMEOUT_PER_STEP |-> 20, AI_TIMEOUT_PER_MP |-> 90,
   AI_TIMEOUT_HIGH_CFG |-> 45, AI_TIMEOUT_MAX |-> 7200]

\* calculateTimeout has not been called
NoTimeoutCall == [called |-> FALSE]

\* a command is invoked
MainInit ==
  /\ cmd \in Commands
  /\ pc = "probe"
  /\ cancelled = FALSE
  /\ currentTaskId = NoJob
  /\ cmdMonitor = "null"
  /\ collectorActive = FALSE
  /\ buttonVisible = FALSE
  /\ cpc = "idle"
  /\ updatesPending = 0
  /\ lastRender = "loading"
  /\ successRendered = FALSE
  /\ taskId = NoJob
  /\ taskResolvers = {}
  /\ waitTimer = {}
  /\ promise = "none"
  /\ settleCalls = 0
  /\ settledBy = "none"
  /\ errMsg = "none"
  /\ resolvedOut = "none"
  /\ genResult = NullResult
  /\ wsState = "none"
  /\ isCompleted = FALSE
  /\ reconnectAttempts = 0
  /\ reconnectTimer = NoTimer
  /\ stopTimer = 0
  /\ received = <<>>
  /\ sinkCalls = <<>>
  /\ clickInFlight = FALSE
  /\ cancelInFlight = FALSE
  /\ cancelRequests = {}
  /\ localOnline = "unknown"
  /\ remoteInvocations = 0
  /\ remoteCalls = 0
  /\ remoteResult = NoRemoteResult

\* no call of the cached probe or of the cancellation client has been made
ClientIdle ==
  /\ hNow = 0
  /\ serviceUp = TRUE
  /\ urlConfigured = TRUE
  /\ serviceStatusCache = NoCacheEntry
  /\ hcalls = <<>>
  /\ ccall = IdleCancelCall
  /\ dcall = IdleHealthCall
  /\ controllerCache = NoController

\* calculateTimeout has not been called
TimeoutIdle ==
  /\ tConfig = DefaultTimeoutConfig
  /\ tPrev = NoTimeoutCall
  /\ tCur = NoTimeoutCall

\* no function of the result normalizer has been called
NoCall == [called |-> FALSE]

PureIdle ==
  /\ fPrev = NoCall
  /\ fCur = NoCall

\* no malformed message has arrived
NoDrop == [how |-> "none", at |-> 0]

DropIdle == dropLog = NoDrop

\* no second generation runs beside the invocation
NoGens == [on |-> FALSE]

GensIdle == gens = NoGens

Init == MainInit /\ ClientIdle /\ TimeoutIdle /\ PureIdle /\ DropIdle /\ GensIdle

(* ---------------------------------------------------------------------- *)
(* PendingWait table: taskResolvers, resolveTask, rejectTask,              *)
(* waitForCompletion (stream mode)                                         *)
(* ---------------------------------------------------------------------- *)

\* a call of the promise's resolve or reject: only the first one counts
Settle(state, by, msg, out) ==
  /\ settleCalls' = settleCalls + 1
  /\ IF promise = "pending"
       THEN /\ promise' = state
            /\ settledBy' = by
            /\ errMsg' = msg
            /\ resolvedOut' = out
       ELSE UNCHANGED <<promise, settledBy, errMsg, resolvedOut>>

\* the calls of isLocalAIOnline that were made: through the cache, or by a
\* command itself
ProbeCalls == {hcalls[k] : k \in DOMAIN hcalls} \cup {dcall}

\* controller.signal.aborted: a timer armed on the controller has fired
Aborted(ctl) ==
  \E c \in ProbeCalls : c.controller = ctl /\ c.abortTimer = "fired"

\* cleanupControllers(): what controllerCache holds once every aborted
\* controller is deleted from it
cleanupControllers ==
  IF Aborted(controllerCache) THEN NoController ELSE controllerCache

\* if (taskResolvers.size === 0) cleanupControllers(), for the map left by
\* resolveTask or rejectTask
CleanupWhenIdle(resolvers) ==
  controllerCache' = IF resolvers = {} THEN cleanupControllers ELSE controllerCache

\* a resolveTask that forgets taskResolvers.delete(taskId)
resolveTask_KeepsEntry(id, out) ==
  IF id \in taskResolvers
    THEN /\ waitTimer' = waitTimer \ {id}
         /\ UNCHANGED taskResolvers
         /\ Settle("resolved", "completed", "none", out)
         /\ CleanupWhenIdle(taskResolvers')
    ELSE UNCHANGED <<waitVars, controllerCache>>

resolveTask(id, out) ==
  IF id \in taskResolvers
    THEN /\ waitTimer' = waitTimer \ {id}
         /\ taskResolvers' = taskResolvers \ {id}
         /\ Settle("resolved", "completed", "none", out)
         /\ CleanupWhenIdle(taskResolvers')
    ELSE UNCHANGED <<waitVars, controllerCache>>

\* a rejectTask that leaves the wait-timeout timer armed
rejectTask_KeepsTimer(id, by, msg) ==
  IF id \in taskResolvers
    THEN /\ UNCHANGED waitTimer
         /\ taskResolvers' = taskResolvers \ {id}
         /\ Settle("rejected", by, msg, "none")
         /\ CleanupWhenIdle(taskResolvers')
    ELSE UNCHANGED <<waitVars, controllerCache>>

rejectTask(id, by, msg) ==
  IF id \in taskResolvers
    THEN /\ waitTimer' = waitTimer \ {id}
         /\ taskResolvers' = taskResolvers \ {id}
         /\ Settle("rejected", by, msg, "none")
         /\ CleanupWhenIdle(taskResolvers')
    ELSE UNCHANGED <<waitVars, controllerCache>>

\* a waitForCompletion whose registration is put off to a later turn of the
\* event loop
waitForCompletion_Deferred(id) ==
  UNCHANGED waitVars

\* a waitForCompletion that registers the resolver without a wait-timeout
waitForCompletion_NoTimer(id) ==
  /\ UNCHANGED waitTimer
  /\ taskResolvers' = taskResolvers \cup {id}
  /\ promise' = "pending"
  /\ UNCHANGED <<settleCalls, settledBy, errMsg, resolvedOut>>

\* usePolling = !progressCallback || !LOCAL_AI_URL: both commands pass a
\* progress callback, and LOCAL_AI_URL is set when the probe succeeded
usePolling == localOnline # "yes"

\* waitForCompletion(taskId, timeoutMs, usePolling = false): arm the timer,
\* register the resolver, return the pending promise
waitForCompletion(id) ==
  /\ waitTimer' = waitTimer \cup {id}
  /\ taskResolvers' = taskResolvers \cup {id}
  /\ promise' = "pending"
  /\ UNCHANGED <<settleCalls, settledBy, errMsg, resolvedOut>>

\* the wait-timeout callback of waitForCompletion
WaitTimeout ==
  /\ \E id \in waitTimer :
       /\ waitTimer' = waitTimer \ {id}
       /\ taskResolvers' = taskResolvers \ {id}
       /\ Settle("rejected", "timeout", "Timeout aguardando WebSocket para tarefa", "none")
  /\ UNCHANGED <<auxVars, cmd, pc, cmdVars, taskId, genResult, monVars, histVars>>

(* ---------------------------------------------------------------------- *)
(* TaskProgressMonitor                                                     *)
(* ---------------------------------------------------------------------- *)

\* ws.close() followed by this.ws = null, in stop and forceStop
ClosedByUs(ws) ==
  CASE ws \in {"connecting", "open"} -> "closing"
    [] ws = "closed" -> "none"
    [] OTHER -> ws

\* stop(): isCompleted = true, close with 1000
stop ==
  /\ isCompleted' = TRUE
  /\ wsState' = ClosedByUs(wsState)

\* forceStop(): isCompleted = true, close with 1001
forceStop ==
  /\ isCompleted' = TRUE
  /\ wsState' = ClosedByUs(wsState)

\* logProgressUpdate throws a TypeError on these messages
LogThrows(e) ==
  \/ e.status = "completed" /\ e.out = "undefined"
  \/ e.status = "failed" /\ e.message = MsgUndefined

\* data.message || `Tarefa ${data.status}`
RejectMessage(e) ==
  IF e.message = MsgUndefined THEN
    (IF e.status = "failed" THEN "Tarefa failed" ELSE "Tarefa cancelled")
  ELSE e.message

\* data.output_paths || []
ResolveOutput(e) == IF e.out = "undefined" THEN "empty" ELSE e.out

handleTaskCompletion(e) ==
  IF e.status \in TerminalStatuses
    THEN /\ isCompleted' = TRUE
         /\ IF e.status = "completed"
              THEN resolveTask(taskId, ResolveOutput(e))
              ELSE rejectTask(taskId, e.status, RejectMessage(e))
         /\ stopTimer' = stopTimer + 1
    ELSE UNCHANGED <<isCompleted, stopTimer, waitVars, controllerCache>>

\* the progress shown by /imagine-pro: percent or fraction, capped at 100
ProgressPercentage(p) ==
  LET v == IF p > 1 THEN p ELSE p * 100
  IN  IF v < 100 THEN v ELSE 100

\* progressCallback of /imagine-pro
ProProgressCallback(e) ==
  IF cancelled
    THEN UNCHANGED <<currentTaskId, lastRender, buttonVisible>>
    ELSE /\ currentTaskId' = IF e.task_id # "undefined" /\ currentTaskId = NoJob
                               THEN e.task_id
                               ELSE currentTaskId
         /\ IF e.status = "completed" \/ ProgressPercentage(e.progress) >= 100
              THEN UNCHANGED <<lastRender, buttonVisible>>
              ELSE /\ lastRender' = "progress"
                   /\ buttonVisible' = TRUE

\* CommandProgressHandler.createProgressCallback, used by /imagine
ImagineProgressCallback(e) ==
  /\ IF cancelled
       THEN UNCHANGED lastRender
       ELSE lastRender' = "progress"
  /\ UNCHANGED <<currentTaskId, buttonVisible>>

\* this.callback(data)
callback(e) ==
  /\ sinkCalls' = Append(sinkCalls, SeenBySink(e, Len(received) + 1))
  /\ IF cmd = "imaginePro" THEN ProProgressCallback(e) ELSE ImagineProgressCallback(e)

\* if (!this.isCompleted) this.callback(data)
ForwardToSink == ~isCompleted

\* ws.onopen
WsOpen ==
  /\ wsState = "connecting"
  /\ wsState' = "open"
  /\ reconnectAttempts' = 0
  /\ UNCHANGED <<auxVars, cmd, pc, cmdVars, taskId, waitVars, genResult, isCompleted,
                 reconnectTimer, stopTimer, histVars>>

\* ws.onmessage, for a message that parses
WsMessage(e) ==
  /\ wsState \in {"open", "closing"}
  /\ Len(received) < MaxEvents
  /\ received' = Append(received, Seen(e))
  /\ IF LogThrows(e)
       THEN UNCHANGED <<sinkCalls, currentTaskId, lastRender, buttonVisible,
                        isCompleted, stopTimer, waitVars, controllerCache>>
       ELSE /\ IF ForwardToSink
                 THEN callback(e)
                 ELSE UNCHANGED <<sinkCalls, currentTaskId, lastRender, buttonVisible>>
            /\ handleTaskCompletion(e)
  /\ UNCHANGED <<probeVars, timeoutVars, pureVars, dropLog, gens, cmd, pc, cancelled,
                 cmdMonitor, collectorActive, cpc,
                 updatesPending, successRendered, taskId, genResult,
                 wsState, reconnectAttempts, reconnectTimer, clickInFlight,
                 cancelInFlight, cancelRequests, localOnline, remoteVars>>

\* setTimeout(..., 2000 * this.reconnectAttempts)
ReconnectDelay(attempts) == 2000 * attempts

\* a reconnect condition that does not look at the close code
ShouldReconnect_AnyCode(code) ==
  /\ ~isCompleted
  /\ reconnectAttempts < maxReconnectAttempts

\* the reconnect condition of ws.onclose
ShouldReconnect(code) ==
  /\ code # NormalClosure
  /\ ~isCompleted
  /\ reconnectAttempts < maxReconnectAttempts

\* ws.onclose
WsClose(code) ==
  /\ wsState \in {"connecting", "open", "closing"}
  /\ wsState' = IF wsState = "closing" THEN "none" ELSE "closed"
  /\ IF ShouldReconnect(code)
       THEN /\ reconnectAttempts' = reconnectAttempts + 1
            /\ reconnectTimer' = ReconnectDelay(reconnectAttempts')
       ELSE UNCHANGED <<reconnectAttempts, reconnectTimer>>
  /\ UNCHANGED <<auxVars, cmd, pc, cmdVars, taskId, waitVars, genResult, isCompleted,
                 stopTimer, histVars>>

\* a reconnect timer that connects without looking at isCompleted
ReconnectTimer_NoCheck ==
  /\ reconnectTimer # NoTimer
  /\ reconnectTimer' = NoTimer
  /\ wsState' = "connecting"
  /\ UNCHANGED <<auxVars, cmd, pc, cmdVars, taskId, waitVars, genResult, isCompleted,
                 reconnectAttempts, stopTimer, histVars>>

\* the reconnect timer set by ws.onclose
ReconnectTimer ==
  /\ reconnectTimer # NoTimer
  /\ reconnectTimer' = NoTimer
  /\ wsState' = IF ~isCompleted THEN "connecting" ELSE wsState
  /\ UNCHANGED <<auxVars, cmd, pc, cmdVars, taskId, waitVars, genResult, isCompleted,
                 reconnectAttempts, stopTimer, histVars>>

\* one of the pending setTimeout(() => this.stop(), 100) of
\* handleTaskCompletion fires: nothing clears them, each terminal message
\* arms its own
StopTimer ==
  /\ stopTimer > 0
  /\ stopTimer' = stopTimer - 1
  /\ stop
  /\ UNCHANGED <<auxVars, cmd, pc, cmdVars, taskId, waitVars, genResult,
                 reconnectAttempts, reconnectTimer, histVars>>

\* stream messages that do not parse to a TaskProgress: data is what
\* event.data is, text what it holds
MalformedMessages ==
  { [data |-> "other", text |-> "none"] }
  \cup [data : {"string", "buffer"}, text : {"empty", "bad_json"}]

\* extractMessageData: the text of a string or a Buffer, null otherwise
extractMessageData(m) ==
  IF m.data \in {"string", "buffer"} THEN m.text ELSE "null"

\* an onmessage whose body is not inside try/catch
OnMalformed_NoCatch(m) ==
  IF extractMessageData(m) \in {"null", "empty"} THEN "returned" ELSE "escaped"

\* how onmessage ends for a malformed message: `if (!dataString) return`,
\* or JSON.parse throws and the catch block logs the error
OnMalformed(m) ==
  IF extractMessageData(m) \in {"null", "empty"} THEN "returned" ELSE "caught"

\* ws.onmessage, for a message that does not parse; one is sent per run
WsMalformed(m) ==
  /\ wsState \in {"open", "closing"}
  /\ dropLog = NoDrop
  /\ dropLog' = [how |-> OnMalformed(m), at |-> Len(received)]
  /\ UNCHANGED <<mainVars, clientVars, timeoutVars, pureVars, gens>>

(* ---------------------------------------------------------------------- *)
(* generateImageLocalWithProgressAndMonitor                                *)
(* ---------------------------------------------------------------------- *)

\* the error classification of the catch block
ErrorType(msg) ==
  IF Includes(msg, "cancelada pelo usuario") THEN "cancelled"
  ELSE IF Includes(msg, "timeout") \/ Includes(msg, "Timeout") THEN "timeout"
  ELSE IF Includes(msg, "falhou") \/ Includes(msg, "failed") THEN "processing_failed"
  ELSE "api_error"

\* the data of the catch block: no image, an error
ErrorResult(msg) ==
  [kind |-> "error", errType |-> ErrorType(msg), buffer |-> FALSE, requestId |-> ""]

\* the data of the success path: imageUrl, and imageBuffer when the download worked
SuccessResult(downloaded) ==
  [kind |-> "success", errType |-> "none", buffer |-> downloaded, requestId |-> taskId]

\* result.imageBuffer || result.imageUrl
HasImage(res) == res.kind = "success"

(* ---------------------------------------------------------------------- *)
(* The commands, after generateImageLocalWithProgressAndMonitor returned   *)
(* ---------------------------------------------------------------------- *)

\* a post-generation check that ignores the cancelled flag
PostGenCancelled_Ignored == FALSE

\* /imagine-pro: if (cancelled) return
PostGenCancelled == cancelled

\* /imagine-pro: if (!result?.imageUrl) throw, caught by the N8N fallback
ProFallsBack(res) == res.kind # "success"

\* /imagine-pro, from `monitor = progressMonitor` to the next suspension
ProAfterGenerate(res, mon) ==
  /\ cmdMonitor' = mon
  /\ collectorActive' = FALSE
  /\ IF PostGenCancelled
       THEN /\ pc' = "done"
            /\ UNCHANGED <<lastRender, successRendered, buttonVisible>>
       ELSE IF res.kind = "error" /\ res.errType = "cancelled"
       THEN /\ pc' = "render"
            /\ lastRender' = "cancelled"
            /\ UNCHANGED <<successRendered, buttonVisible>>
       ELSE IF ProFallsBack(res)
       THEN /\ pc' = "remote"
            /\ lastRender' = "fallback"
            /\ UNCHANGED <<successRendered, buttonVisible>>
       ELSE /\ pc' = "commandDownload"
            /\ UNCHANGED <<lastRender, successRendered, buttonVisible>>

\* /imagine-pro: result.imageUrl?.includes(config.LOCAL_AI_URL || ''), for the
\* imageUrl the local generation builds from LOCAL_AI_URL
IsLocalImageUrl(res) == res.kind = "success"

\* what the command's own fetch of result.imageUrl can do
CommandFetchOutcomes == {"ok", "notok", "throws"}

\* /imagine-pro: the editReply of the image embed, as attachment or by URL,
\* with components: [], is issued
ProRenderImage ==
  /\ pc' = "render"
  /\ lastRender' = "success"
  /\ successRendered' = TRUE
  /\ UNCHANGED buttonVisible

\* /imagine-pro: `await fetch(result.imageUrl)` of the command returned or threw
CommandFetchReturn(outcome) ==
  /\ pc = "commandDownload"
  /\ IsLocalImageUrl(genResult)
  /\ IF outcome = "ok"
       THEN /\ pc' = "commandBody"
            /\ UNCHANGED <<lastRender, successRendered, buttonVisible>>
       ELSE ProRenderImage
  /\ UNCHANGED <<auxVars, cmd, cancelled, currentTaskId, cmdMonitor, collectorActive, cpc,
                 updatesPending,
                 taskId, waitVars, genResult, monVars, histVars>>

\* /imagine-pro: `await response.arrayBuffer()` of the command returned or threw
CommandBodyRead(read) ==
  /\ pc = "commandBody"
  /\ ProRenderImage
  /\ UNCHANGED <<auxVars, cmd, cancelled, currentTaskId, cmdMonitor, collectorActive, cpc,
                 updatesPending,
                 taskId, waitVars, genResult, monVars, histVars>>

\* /imagine: the embed handleSuccessfulGeneration puts in its editReply
ImagineRender(res) == IF HasImage(res) THEN "success" ELSE "noimage"

\* /imagine: if (result && !cancelled) handleSuccessfulGeneration(...)
ImagineHandlesResult(res) == res.kind # "null" /\ ~cancelled

\* /imagine, from `monitor = progressMonitor` to the next suspension: the
\* collector is created and, for a result that is handled, the editReply of
\* handleSuccessfulGeneration is issued
ImagineAfterGenerate(res, mon) ==
  /\ cmdMonitor' = mon
  /\ collectorActive' = TRUE
  /\ IF ImagineHandlesResult(res)
       THEN /\ pc' = "render"
            /\ lastRender' = ImagineRender(res)
            /\ successRendered' = (successRendered \/ HasImage(res))
       ELSE /\ pc' = "done"
            /\ UNCHANGED <<lastRender, successRendered>>
  /\ UNCHANGED buttonVisible

AfterGenerate(res, mon) ==
  /\ genResult' = res
  /\ IF cmd = "imaginePro" THEN ProAfterGenerate(res, mon) ELSE ImagineAfterGenerate(res, mon)

(* ---------------------------------------------------------------------- *)
(* command.execute                                                         *)
(* ---------------------------------------------------------------------- *)

\* isLocalAIOnline() returned
HealthResult(online) ==
  /\ pc = "probe"
  /\ IF online
       THEN /\ pc' = "submit"
            /\ buttonVisible' = TRUE
            /\ collectorActive' = (cmd = "imaginePro")
            /\ UNCHANGED lastRender
       ELSE /\ pc' = "remote"
            /\ lastRender' = "fallback"
            /\ UNCHANGED <<buttonVisible, collectorActive>>
  /\ localOnline' = IF online THEN "yes" ELSE "no"
  /\ UNCHANGED <<auxVars, cmd, cancelled, currentTaskId, cmdMonitor, cpc,
                 updatesPending, successRendered,
                 taskId, waitVars, genResult, monVars, received, sinkCalls,
                 clickInFlight, cancelInFlight, cancelRequests, remoteVars>>

\* submitGeneration() returned: a task id, or null on any failure
SubmitResult(accepted) ==
  /\ pc = "submit"
  /\ IF accepted
       THEN /\ \E id \in JobIds : taskId' = id /\ waitForCompletion(id)
            /\ wsState' = "connecting"
            /\ pc' = "await"
            /\ UNCHANGED <<cmdMonitor, collectorActive, lastRender, successRendered,
                           buttonVisible, genResult>>
       ELSE /\ AfterGenerate(NullResult, "null")
            /\ UNCHANGED <<taskId, waitVars, wsState>>
  /\ UNCHANGED <<auxVars, cmd, cancelled, currentTaskId, cpc, updatesPending, isCompleted,
                 reconnectAttempts, reconnectTimer, stopTimer, histVars>>

\* the continuation of `await waitForCompletion(...)`
GenResume ==
  /\ pc = "await"
  /\ promise \in {"resolved", "rejected"}
  /\ IF promise = "resolved" /\ resolvedOut # "empty"
       THEN /\ pc' = "download"
            /\ UNCHANGED <<cmdMonitor, collectorActive, lastRender, successRendered,
                           buttonVisible, genResult, wsState, isCompleted>>
       ELSE /\ stop
            /\ AfterGenerate(ErrorResult(IF promise = "resolved"
                                           THEN "Nenhuma imagem gerada"
                                           ELSE errMsg), "null")
  /\ UNCHANGED <<auxVars, cmd, cancelled, currentTaskId, cpc, updatesPending, taskId, waitVars,
                 reconnectAttempts, reconnectTimer, stopTimer, histVars>>

\* what the fetch of the image, made with a signal that a 30 s timer aborts,
\* comes back with: a 2xx response, another status, or a rejection
DownloadOutcomes == {"ok", "notok", "throws"}

\* `await fetch(imageUrl, {signal})` of the generation settled: on a 2xx
\* response the abort timer is cleared and the body read starts; otherwise
\* the inner catch leaves imageBuffer null and the generation returns
DownloadFetchReturn(outcome) ==
  /\ pc = "download"
  /\ IF outcome = "ok"
       THEN /\ pc' = "downloadBody"
            /\ UNCHANGED <<cmdMonitor, collectorActive, lastRender, successRendered,
                           buttonVisible, genResult, wsState, isCompleted>>
       ELSE /\ stop
            /\ AfterGenerate(SuccessResult(FALSE), "monitor")
  /\ UNCHANGED <<auxVars, cmd, cancelled, currentTaskId, cpc, updatesPending, taskId, waitVars,
                 reconnectAttempts, reconnectTimer, stopTimer, histVars>>

\* `await response.arrayBuffer()` of the generation settled, with the bytes
\* or with a rejection; no timer bounds it
DownloadBodyRead(read) ==
  /\ pc = "downloadBody"
  /\ stop
  /\ AfterGenerate(SuccessResult(read), "monitor")
  /\ UNCHANGED <<auxVars, cmd, cancelled, currentTaskId, cpc, updatesPending, taskId, waitVars,
                 reconnectAttempts, reconnectTimer, stopTimer, histVars>>

\* the last editReply of the command resolved, of handleSuccessfulGeneration
\* in /imagine, of the image or the cancelled embed in /imagine-pro: the
\* message has lost its button (components: []), the command returns
RenderDone ==
  /\ pc = "render"
  /\ pc' = "done"
  /\ buttonVisible' = FALSE
  /\ UNCHANGED <<auxVars, cmd, cancelled, currentTaskId, cmdMonitor, collectorActive, cpc,
                 updatesPending,
                 lastRender, successRendered, taskId, waitVars, genResult, monVars,
                 histVars>>

(* ---------------------------------------------------------------------- *)
(* The remote path: generateImage (n8n)                                    *)
(* ---------------------------------------------------------------------- *)

(* Strings that generateImage and processImageBase64 look into are sequences *)
(* of tokens; the string is the concatenation of its tokens.               *)

EnvOpen == "{\"b64_json\":\""
EnvClose == "\"}"
OtherOpen == "{\"url\":\""
NumEnvelope == "{\"b64_json\":123}"
UriScheme == "data:image/"
UriBase64 == ";base64,"

\* tokens made of lowercase letters only: what [a-z]+ matches
LowerTokens == {"png", "jpeg", "null"}

\* a media subtype [a-z]+ does not match
OtherSubtype == "svg+xml"

\* groups of four base64 characters, and the three bytes each one encodes
Base64Groups == {"AAAA", "QUJD", "null"}

GroupBytes(g) ==
  CASE g = "AAAA" -> <<0, 0, 0>>
    [] g = "QUJD" -> <<65, 66, 67>>
    [] g = "null" -> <<158, 233, 101>>

\* tokens that hold a double quote or a brace
JsonSpecial == {EnvOpen, EnvClose, OtherOpen, NumEnvelope}

\* number of base64 groups in a payload
MaxGroups == 2

RECURSIVE SeqsUpTo(_, _)
SeqsUpTo(S, n) ==
  IF n = 0 THEN {<<>>}
  ELSE LET shorter == SeqsUpTo(S, n - 1)
       IN  shorter \cup { Append(t, x) : t \in shorter, x \in S }

\* base64 texts: the empty string included
Base64Texts == SeqsUpTo(Base64Groups, MaxGroups)

DataUri(subtype, text) == <<UriScheme, subtype, UriBase64>> \o text

Envelope(text) == <<EnvOpen>> \o text \o <<EnvClose>>

OtherEnvelope(text) == <<OtherOpen>> \o text \o <<EnvClose>>

\* the payloads processImageBase64 is called with
Payloads ==
  Base64Texts
  \cup { DataUri(st, x) : st \in {"png", "jpeg", OtherSubtype}, x \in Base64Texts }
  \cup { Envelope(x) : x \in Base64Texts }
  \cup { Envelope(DataUri("png", x)) : x \in Base64Texts }
  \cup { DataUri("png", Envelope(x)) : x \in Base64Texts }
  \cup { OtherEnvelope(x) : x \in Base64Texts }
  \cup { <<NumEnvelope>> }

\* JSON.parse(text), as far as processImageBase64 looks at the value:
\* it throws, or gives null, or an object with or without b64_json
JsonParse(text) ==
  LET n == Len(text)
      inner == SubSeq(text, 2, n - 1)
      plain == \A i \in 1..Len(inner) : inner[i] \notin JsonSpecial
  IN  IF text = <<"null">> THEN [ok |-> TRUE, json |-> "null"]
      ELSE IF text = <<NumEnvelope>>
        THEN [ok |-> TRUE, json |-> "object", field |-> "number"]
      ELSE IF n >= 2 /\ text[1] = EnvOpen /\ text[n] = EnvClose /\ plain
        THEN [ok |-> TRUE, json |-> "object", field |-> "string", value |-> inner]
      ELSE IF n >= 2 /\ text[1] = OtherOpen /\ text[n] = EnvClose /\ plain
        THEN [ok |-> TRUE, json |-> "object", field |-> "undefined"]
      ELSE [ok |-> FALSE]

\* the inner try of processImageBase64: base64Data after it; a thrown
\* SyntaxError or TypeError (null.b64_json) leaves the argument as it is
AfterEnvelope(text) ==
  LET p == JsonParse(text)
  IN  IF p.ok /\ p.json = "object" /\ p.field = "number"
        THEN [string |-> FALSE]
      ELSE IF p.ok /\ p.json = "object" /\ p.field = "string" /\ p.value # <<>>
        THEN [string |-> TRUE, text |-> p.value]
      ELSE [string |-> TRUE, text |-> text]

\* the end of the match of /^data:image\/[a-z]+;base64,/, or 0
UriHeaderEnd(text) ==
  LET ends == { k \in 3..Len(text) :
                  /\ text[1] = UriScheme
                  /\ \A i \in 2..(k - 1) : text[i] \in LowerTokens
                  /\ text[k] = UriBase64 }
  IN  IF ends = {} THEN 0 ELSE CHOOSE k \in ends : TRUE

\* a replace that finds no header
StripDataUri_Never(text) == text

\* base64Data.replace(/^data:image\/[a-z]+;base64,/, '')
StripDataUri(text) ==
  IF UriHeaderEnd(text) = 0 THEN text
  ELSE SubSeq(text, UriHeaderEnd(text) + 1, Len(text))

RECURSIVE DecodeGroups(_)
DecodeGroups(text) ==
  IF text = <<>> THEN <<>> ELSE GroupBytes(Head(text)) \o DecodeGroups(Tail(text))

\* JavaScript null, where a Buffer is expected
NullBuffer == [kind |-> "null"]

\* Buffer.from(text, 'base64'): the bytes of a text made of base64 groups;
\* for any other text a Buffer too (the decoder does not throw), kept as a
\* function of the text
BufferFromBase64(text) ==
  IF \A i \in 1..Len(text) : text[i] \in Base64Groups
    THEN [kind |-> "bytes", bytes |-> DecodeGroups(text)]
    ELSE [kind |-> "lenient", text |-> text]

processImageBase64(base64Image) ==
  LET base64Data == AfterEnvelope(base64Image)
  IN  IF ~base64Data.string
        THEN NullBuffer   \* base64Data.replace is not a function: caught, null
        ELSE BufferFromBase64(StripDataUri(base64Data.text))

\* what the call of the webhook can come back with, other than a parsed body
RemoteFailures == {"unconfigured", "network_error", "abort", "http_error", "bad_json"}

\* meta.reason: "" stands for an absent or empty reason
Reasons == {"", "Prompt rejected by the safety system"}

ImageUrlText == <<"https://img.example/1.png">>

\* image: <<>> stands for an absent or empty image
Images == {<<>>, ImageUrlText, <<"QUJD">>, DataUri("png", <<"QUJD">>),
           Envelope(<<"QUJD">>), <<NumEnvelope>>}

\* model: "" stands for an absent or empty model name
Models == {"", "flux"}

\* type: "" stands for an absent or empty type
Types == {"url", "base64", "png", ""}

JsonNull == [json |-> "null"]

\* the JSON objects a body can be
RemoteBodies ==
  [json : {"object"}, reason : Reasons, image : Images, model : Models,
   params : BOOLEAN, type : Types]

\* the parsed bodies: null, an object, or an array of no or one element
RemoteData ==
  {JsonNull} \cup RemoteBodies
  \cup { [json |-> "array", items |-> <<>>] }
  \cup { [json |-> "array", items |-> <<x>>] : x \in RemoteBodies \cup {JsonNull} }

RemoteResponses ==
  { [outcome |-> f] : f \in RemoteFailures }
  \cup { [outcome |-> "body", data |-> d] : d \in RemoteData }

\* generateImage returned null
ProcessedNull == [kind |-> "null"]

\* a generateImage that validates the structure before it looks at meta.reason
ProcessBody_ValidateFirst(b) ==
  IF b.image = <<>> \/ b.model = "" \/ b.type = "" \/ ~b.params
    THEN ProcessedNull
  ELSE IF b.reason # ""
    THEN [kind |-> "data", errType |-> "content_policy_violation",
          reason |-> b.reason, type |-> "url",
          imageUrl |-> <<>>, imageBuffer |-> NullBuffer]
  ELSE [kind |-> "data", errType |-> "none", reason |-> "", type |-> b.type,
        imageUrl |-> IF b.type = "url" THEN b.image ELSE <<>>,
        imageBuffer |-> IF b.type = "base64"
                          THEN processImageBase64(b.image) ELSE NullBuffer]

\* the ProcessedImageData generateImage builds from a parsed, unwrapped
\* object, with the fields the callers read
ProcessBody(b) ==
  IF b.reason # ""
    THEN [kind |-> "data", errType |-> "content_policy_violation",
          reason |-> b.reason, type |-> "url",
          imageUrl |-> <<>>, imageBuffer |-> NullBuffer]
  ELSE IF b.image = <<>> \/ b.model = "" \/ b.type = ""
    THEN ProcessedNull
  ELSE IF ~b.params   \* imageData.params.size throws, caught: return null
    THEN ProcessedNull
  ELSE [kind |-> "data", errType |-> "none", reason |-> "", type |-> b.type,
        imageUrl |-> IF b.type = "url" THEN b.image ELSE <<>>,
        imageBuffer |-> IF b.type = "base64"
                          THEN processImageBase64(b.image) ELSE NullBuffer]

\* an unwrapping that leaves arrays as they are
UnwrapArray_Keep(d) == d

\* responseData = responseData[0], for an array that has elements
UnwrapArray(d) ==
  IF d.json = "array" /\ Len(d.items) > 0 THEN d.items[1] ELSE d

generateImage(r) ==
  IF r.outcome \in RemoteFailures THEN ProcessedNull
  ELSE LET u == UnwrapArray(r.data)
       IN  IF r.data = JsonNull THEN ProcessedNull              \* !responseData
           ELSE IF r.data.json = "array" /\ Len(r.data.items) = 0
             THEN ProcessedNull                                 \* empty array
           ELSE IF u = JsonNull THEN ProcessedNull              \* null.meta throws
           ELSE IF u.json = "array" THEN ProcessedNull          \* no image, model, type
           ELSE ProcessBody(u)

RemoteNull == [kind |-> "null", errType |-> "none", type |-> "none",
               url |-> FALSE, buffer |-> FALSE]

\* what the commands read of a result: the error type, the type, and
\* whether imageUrl and imageBuffer are set
ReadByCommand(res) ==
  IF res.kind = "null" THEN RemoteNull
  ELSE [kind |-> "data", errType |-> res.errType, type |-> res.type,
        url |-> (res.imageUrl # <<>>), buffer |-> (res.imageBuffer # NullBuffer)]

\* generateImage returns before fetch when the webhook is not configured
MakesHttpCall(r) == r.outcome # "unconfigured"

\* one response for each distinct effect generateImage can have on its caller:
\* the value it returns, as far as the caller reads it, and whether the
\* webhook was called
RemoteCases ==
  LET effect(r) == <<ReadByCommand(generateImage(r)), MakesHttpCall(r)>>
  IN  { CHOOSE r \in RemoteResponses : effect(r) = e
          : e \in { effect(q) : q \in RemoteResponses } }

\* /imagine-pro: what is written to the reply for a remote result
ProRemoteRender(res, isUserSuper) ==
  IF res.kind = "null" THEN "error"
  ELSE IF res.errType = "content_policy_violation" /\ ~isUserSuper THEN "policy"
  ELSE IF res.type = "url" /\ res.url THEN "success"
  ELSE IF res.type = "base64" /\ res.buffer THEN "success"
  ELSE "error"

\* /imagine generateWithN8N: what is written to the reply for a remote result
ImagineRemoteRender(res) ==
  IF res.kind = "null" THEN lastRender
  ELSE IF res.buffer \/ res.url THEN "success"
  ELSE "noimage"

\* generateImage returned r to the command: /imagine-pro issues the editReply
\* of the image, the policy or the error embed; /imagine issues the editReply
\* of handleSuccessfulGeneration, or returns when the result is null
RemoteReturn(r, isUserSuper) ==
  /\ remoteResult' = ReadByCommand(generateImage(r))
  /\ lastRender' = IF cmd = "imaginePro"
                     THEN ProRemoteRender(remoteResult', isUserSuper)
                     ELSE ImagineRemoteRender(remoteResult')
  /\ successRendered' = (successRendered \/ lastRender' = "success")
  /\ pc' = IF cmd = "imagine" /\ remoteResult'.kind = "null" THEN "done" ELSE "remoteRender"

\* the editReply of the fallback embed resolved and generateImage is called.
\* With the webhook configured the POST is issued and the command waits for
\* it; without, generateImage returns null before any await
RemoteStart(configured) ==
  /\ pc = "remote"
  /\ remoteInvocations = 0
  /\ remoteInvocations' = remoteInvocations + 1
  /\ IF configured
       THEN /\ remoteCalls' = remoteCalls + 1
            /\ UNCHANGED <<pc, remoteResult, lastRender, successRendered>>
       ELSE /\ RemoteReturn([outcome |-> "unconfigured"], FALSE)
            /\ UNCHANGED remoteCalls
  /\ UNCHANGED <<auxVars, cmd, cancelled, currentTaskId, cmdMonitor, collectorActive,
                 buttonVisible, cpc, updatesPending, taskId, waitVars, genResult, monVars,
                 received, sinkCalls, clickInFlight, cancelInFlight, cancelRequests,
                 localOnline>>

\* the POST to the webhook came back, failed or was aborted by the 2 minute
\* timer, the body was read, and generateImage() returned
RemoteResult(r, isUserSuper) ==
  /\ pc = "remote"
  /\ remoteInvocations > 0
  /\ MakesHttpCall(r)
  /\ RemoteReturn(r, isUserSuper)
  /\ UNCHANGED <<auxVars, cmd, cancelled, currentTaskId, cmdMonitor, collectorActive,
                 buttonVisible, cpc, updatesPending, taskId, waitVars, genResult, monVars,
                 received, sinkCalls, clickInFlight, cancelInFlight, cancelRequests,
                 localOnline, remoteInvocations, remoteCalls>>

\* the last editReply of the remote path resolved and the command returns.
\* handleSuccessfulGeneration of /imagine edits with components: []; the
\* edits of /imagine-pro name no components and leave the button
RemoteRenderDone ==
  /\ pc = "remoteRender"
  /\ pc' = "done"
  /\ buttonVisible' = IF cmd = "imagine" THEN FALSE ELSE buttonVisible
  /\ UNCHANGED <<auxVars, cmd, cancelled, currentTaskId, cmdMonitor, collectorActive, cpc,
                 updatesPending, lastRender, successRendered, taskId, waitVars,
                 genResult, monVars, histVars>>

(* ---------------------------------------------------------------------- *)
(* Cancellation: the cancel button and the collectors                      *)
(* ---------------------------------------------------------------------- *)

\* a local job is in flight: accepted, and its wait not settled yet
InFlight == taskId # NoJob /\ promise = "pending"

\* /imagine: const currentTaskId: string | null = null
ImagineCurrentTaskId == NoJob

\* number of handlers of /imagine that await their update at the same time
MaxHandlers == 2

\* /imagine-pro 'collect': if (currentTaskId && !cancelled)
ProCollectGuard == currentTaskId # NoJob /\ ~cancelled

\* the requesting user clicks the cancel button of the reply.  The handler
\* of /imagine has no guard on `cancelled`: each click while the button is
\* shown starts a handler of its own, which awaits its own update
UserClick ==
  /\ buttonVisible
  /\ (cmd = "imagine" /\ collectorActive) => updatesPending < MaxHandlers
  /\ clickInFlight' = (clickInFlight \/ InFlight)
  /\ IF cmd = "imaginePro" /\ collectorActive /\ ProCollectGuard
       THEN /\ cancelled' = TRUE
            /\ cpc' = "defer"
            /\ cancelInFlight' = (cancelInFlight \/ InFlight)
            /\ UNCHANGED <<updatesPending, lastRender, buttonVisible, cancelRequests,
                           wsState, isCompleted>>
     ELSE IF cmd = "imagine" /\ collectorActive
       THEN /\ cancelled' = TRUE
            /\ updatesPending' = updatesPending + 1
            /\ cancelInFlight' = (cancelInFlight \/ InFlight)
            /\ IF ImagineCurrentTaskId # NoJob /\ cmdMonitor # "null"
                 THEN /\ cancelRequests' = cancelRequests \cup {ImagineCurrentTaskId}
                      /\ forceStop
                 ELSE UNCHANGED <<cancelRequests, wsState, isCompleted>>
            /\ lastRender' = "cancelled"
            /\ cpc' = "reply"
            /\ UNCHANGED buttonVisible
     ELSE UNCHANGED <<cancelled, cpc, updatesPending, cancelInFlight, lastRender, buttonVisible,
                      cancelRequests, wsState, isCompleted>>
  /\ UNCHANGED <<auxVars, cmd, pc, currentTaskId, cmdMonitor, collectorActive,
                 successRendered, taskId, waitVars, genResult, reconnectAttempts,
                 reconnectTimer, stopTimer, received, sinkCalls, localOnline,
                 remoteVars>>

\* /imagine-pro 'collect', when `await buttonInteraction.deferUpdate()`
\* settled.  Resolved: stop the monitor, call cancelLocalTask.  Rejected: the
\* catch block issues the editReply of the 'Erro no Cancelamento' embed, and
\* cancelLocalTask is not called
CancelDeferred(deferred) ==
  /\ cpc = "defer"
  /\ IF deferred
       THEN /\ cpc' = "cancelling"
            /\ IF cmdMonitor # "null" THEN forceStop ELSE UNCHANGED <<wsState, isCompleted>>
            /\ cancelRequests' = cancelRequests \cup {currentTaskId}
            /\ UNCHANGED lastRender
       ELSE /\ cpc' = "errorReply"
            /\ lastRender' = "cancelError"
            /\ UNCHANGED <<wsState, isCompleted, cancelRequests>>
  /\ UNCHANGED <<auxVars, cmd, pc, cancelled, currentTaskId, cmdMonitor, collectorActive,
                 buttonVisible, updatesPending, successRendered, taskId, waitVars,
                 genResult, reconnectAttempts, reconnectTimer, stopTimer,
                 received, sinkCalls, clickInFlight, cancelInFlight, localOnline,
                 remoteVars>>

\* /imagine-pro 'collect', after cancelLocalTask returned true or false: the
\* editReply of the cancel embed, with components: [], is issued
CancelResult(success) ==
  /\ cpc = "cancelling"
  /\ cpc' = "reply"
  /\ lastRender' = "cancelRequested"
  /\ UNCHANGED <<auxVars, cmd, pc, cancelled, currentTaskId, cmdMonitor, collectorActive,
                 buttonVisible, updatesPending, successRendered, taskId, waitVars,
                 genResult, monVars, histVars>>

\* 'collect', once the edit of the cancel embed settled.  Resolved: the
\* message has lost its button; /imagine-pro goes on to collector.stop(),
\* /imagine, whose edit is buttonInteraction.update, leaves its collector
\* listening.  Rejected: the catch block of /imagine-pro issues the editReply
\* of the 'Erro no Cancelamento' embed; the handler of /imagine, which has no
\* catch, ends there.  In /imagine the update that settled is the one of one of
\* the handlers in flight, and cpc stays "reply" while another handler still
\* awaits its update
CancelReplyDone(resolved) ==
  /\ cpc = "reply"
  /\ IF cmd = "imaginePro"
       THEN /\ IF resolved
                 THEN /\ cpc' = "done"
                      /\ buttonVisible' = FALSE
                      /\ collectorActive' = FALSE
                      /\ UNCHANGED lastRender
                 ELSE /\ cpc' = "errorReply"
                      /\ lastRender' = "cancelError"
                      /\ UNCHANGED <<buttonVisible, collectorActive>>
            /\ UNCHANGED updatesPending
       ELSE /\ updatesPending' = updatesPending - 1
            /\ cpc' = IF updatesPending' > 0 THEN "reply"
                      ELSE IF resolved THEN "done" ELSE "caught"
            /\ buttonVisible' = IF resolved THEN FALSE ELSE buttonVisible
            /\ UNCHANGED <<lastRender, collectorActive>>
  /\ UNCHANGED <<auxVars, cmd, pc, cancelled, currentTaskId, cmdMonitor,
                 successRendered, taskId, waitVars, genResult, monVars, histVars>>

\* /imagine-pro 'collect', once the editReply of the catch block settled:
\* resolved, the message has lost its button (components: []); rejected, the
\* inner catch logs.  The handler ends without collector.stop()
CancelErrorReplyDone(resolved) ==
  /\ cpc = "errorReply"
  /\ cpc' = "caught"
  /\ buttonVisible' = IF resolved THEN FALSE ELSE buttonVisible
  /\ UNCHANGED <<auxVars, cmd, pc, cancelled, currentTaskId, cmdMonitor, collectorActive,
                 updatesPending, lastRender, successRendered, taskId, waitVars,
                 genResult, monVars, histVars>>

\* the collector's 5 minutes are over
CollectorTimeout ==
  /\ collectorActive
  /\ collectorActive' = FALSE
  /\ UNCHANGED <<auxVars, cmd, pc, cancelled, currentTaskId, cmdMonitor, buttonVisible,
                 cpc, updatesPending, lastRender, successRendered, taskId, waitVars, genResult,
                 monVars, histVars>>

(* ---------------------------------------------------------------------- *)
(* The cached health probe: checkServiceWithCache('localai',               *)
(* isLocalAIOnline).  Times are in ms.                                     *)
(* ---------------------------------------------------------------------- *)

CACHE_TTL == 30 * 1000

MIN_CHECK_INTERVAL == 5 * 1000

\* how far the clock moves between two turns of the event loop
TickSteps == {2500}

\* what fetch(`${LOCAL_AI_URL}/health`) comes back with
ProbeOutcomes == {"ok", "non2xx", "network_error", "abort"}

\* the outcomes the backend can produce in its present state; the request
\* can be aborted in either
PossibleProbeOutcomes ==
  IF serviceUp THEN {"ok", "abort"} ELSE {"non2xx", "network_error", "abort"}

\* fetch rejects
FetchThrows(outcome) == outcome \in {"network_error", "abort"}

\* the abort timer of isLocalAIOnline when it returns: clearTimeout runs
\* only after fetch resolved; the catch block does not clear the timer
AbortTimerAfter(c, outcome) ==
  IF ~FetchThrows(outcome) THEN "cleared" ELSE c.abortTimer

\* TIMEOUTS.HEALTH_CHECK
HEALTH_CHECK == 5000

\* the controller created by the direct call; the one created by the cached
\* call i is named i
DirectController == MaxCalls + 1

\* getOrCreateController, called by call i: the cached controller unless
\* there is none or it is aborted
getOrCreateController(i) ==
  IF controllerCache = NoController \/ Aborted(controllerCache)
    THEN i
    ELSE controllerCache

\* what a pending request made with the signal of ctl can come back with: the
\* backend's answer while the signal is not aborted, an AbortError once it is
RequestOutcomesOn(ctl) ==
  IF Aborted(ctl) THEN {"abort"}
  ELSE PossibleProbeOutcomes \ {"abort"}

\* what the pending request of the cached call i can come back with
RequestOutcomes(i) == RequestOutcomesOn(hcalls[i].controller)

\* a continuation that needs no timer and no I/O is queued: it runs before
\* any timer callback or I/O event, and before the clock moves on
MicrotaskPending == \E k \in DOMAIN hcalls : hcalls[k].pc = "resuming"

\* a boolean as the settled value of a promise: "true", "false"; a rejection
\* is "throws"
BoolStr(b) == IF b THEN "true" ELSE "false"

\* an isLocalAIOnline whose fetch is not inside try/catch
isLocalAIOnline_NoCatch(configured, outcome) ==
  IF ~configured THEN "false"
  ELSE IF FetchThrows(outcome) THEN "throws"
  ELSE BoolStr(outcome = "ok")

\* isLocalAIOnline(): false without URL, response.ok, false from the catch
isLocalAIOnline(configured, outcome) ==
  IF ~configured THEN "false"
  ELSE IF FetchThrows(outcome) THEN "false"
  ELSE BoolStr(outcome = "ok")

\* the two early returns of checkServiceWithCache
UsesCache(cached, now) ==
  \/ /\ cached.present
     /\ now - cached.timestamp < CACHE_TTL
     /\ now - cached.lastCheck < MIN_CHECK_INTERVAL
  \/ /\ cached.present
     /\ now - cached.lastCheck < MIN_CHECK_INTERVAL

\* checkServiceWithCache once checkFn has settled with r: the value returned
\* and the cache entry left
AfterCheckFn(c, r) ==
  IF r = "throws"
    THEN [result |-> IF c.cached.present THEN BoolStr(c.cached.isOnline) ELSE "false",
          cache  |-> serviceStatusCache]
    ELSE [result |-> r,
          cache  |-> [present |-> TRUE, isOnline |-> (r = "true"),
                      timestamp |-> c.start, lastCheck |-> c.start]]

\* checkServiceWithCache is called: up to its return from the cache, or to
\* the suspension at `await checkFn()`, with or without a request sent by
\* isLocalAIOnline
HealthCallStart(i) ==
  /\ i \notin DOMAIN hcalls
  /\ \A j \in HealthCalls : j < i => j \in DOMAIN hcalls
  /\ LET c == [IdleHealthCall EXCEPT !.start = hNow, !.cached = serviceStatusCache]
     IN  IF UsesCache(serviceStatusCache, hNow)
           THEN /\ hcalls' = hcalls @@ (i :>
                     [c EXCEPT !.pc = "done",
                               !.result = BoolStr(serviceStatusCache.isOnline),
                               !.cacheAfter = serviceStatusCache])
                /\ UNCHANGED <<serviceStatusCache, controllerCache>>
         ELSE IF ~urlConfigured
           THEN /\ hcalls' = hcalls @@ (i :>
                     [c EXCEPT !.pc = "resuming", !.probed = TRUE,
                               !.probeResult = isLocalAIOnline(urlConfigured, "none")])
                /\ UNCHANGED <<serviceStatusCache, controllerCache>>
         ELSE /\ hcalls' = hcalls @@ (i :> [c EXCEPT !.pc = "probing", !.probed = TRUE,
                                                      !.abortTimer = "armed",
                                                      !.controller = getOrCreateController(i)])
              /\ controllerCache' = getOrCreateController(i)
              /\ UNCHANGED serviceStatusCache
  /\ UNCHANGED <<mainVars, timeoutVars, pureVars, dropLog, gens, dcall, hNow, serviceUp, urlConfigured, ccall>>

\* the continuation of `await checkFn()` when isLocalAIOnline returned
\* false without a request: the cache is written, the call returns
HealthCallResume(i) ==
  /\ i \in DOMAIN hcalls
  /\ hcalls[i].pc = "resuming"
  /\ LET c == hcalls[i]
         a == AfterCheckFn(c, c.probeResult)
     IN  /\ hcalls' = [hcalls EXCEPT ![i] =
              [c EXCEPT !.pc = "done", !.result = a.result, !.cacheAfter = a.cache]]
         /\ serviceStatusCache' = a.cache
  /\ UNCHANGED <<mainVars, timeoutVars, pureVars, dropLog, gens, controllerCache, dcall, hNow, serviceUp, urlConfigured, ccall>>

\* the fetch of isLocalAIOnline settled: isLocalAIOnline returns, and
\* checkServiceWithCache updates the cache and returns
HealthProbeReturn(i, outcome) ==
  /\ i \in DOMAIN hcalls
  /\ ~MicrotaskPending
  /\ hcalls[i].pc = "probing"
  /\ outcome \in RequestOutcomes(i)
  /\ LET c == hcalls[i]
         r == isLocalAIOnline(urlConfigured, outcome)
         a == AfterCheckFn(c, r)
     IN  /\ hcalls' = [hcalls EXCEPT ![i] =
              [c EXCEPT !.pc = "done", !.outcome = outcome, !.probeResult = r,
                        !.result = a.result, !.cacheAfter = a.cache,
                        !.abortTimer = AbortTimerAfter(c, outcome)]]
         /\ serviceStatusCache' = a.cache
  /\ UNCHANGED <<mainVars, timeoutVars, pureVars, dropLog, gens, controllerCache, dcall, hNow, serviceUp, urlConfigured, ccall>>

\* the timer armed by call k fires, TIMEOUTS.HEALTH_CHECK after the call or
\* later: controller.abort()
AbortTimerFires(k) ==
  /\ k \in DOMAIN hcalls
  /\ ~MicrotaskPending
  /\ hcalls[k].abortTimer = "armed"
  /\ hNow >= hcalls[k].start + HEALTH_CHECK
  /\ hcalls' = [hcalls EXCEPT ![k].abortTimer = "fired"]
  /\ UNCHANGED <<mainVars, timeoutVars, pureVars, dropLog, gens, controllerCache, dcall, hNow, serviceUp, urlConfigured,
                 serviceStatusCache, ccall>>

\* a command calls isLocalAIOnline() itself, not through the cache: false
\* without URL, else up to the suspension at its /health request
DirectProbeStart ==
  /\ dcall.pc = "idle"
  /\ IF ~urlConfigured
       THEN /\ dcall' = [dcall EXCEPT !.pc = "done", !.start = hNow, !.probed = TRUE,
                                      !.probeResult = isLocalAIOnline(urlConfigured, "none"),
                                      !.result = isLocalAIOnline(urlConfigured, "none")]
            /\ UNCHANGED controllerCache
       ELSE /\ dcall' = [dcall EXCEPT !.pc = "probing", !.start = hNow, !.probed = TRUE,
                                      !.abortTimer = "armed",
                                      !.controller = getOrCreateController(DirectController)]
            /\ controllerCache' = getOrCreateController(DirectController)
  /\ UNCHANGED <<mainVars, timeoutVars, pureVars, dropLog, gens, hNow, serviceUp,
                 urlConfigured, serviceStatusCache, hcalls, ccall>>

\* the /health request of the direct call settled: isLocalAIOnline returns
DirectProbeReturn(outcome) ==
  /\ ~MicrotaskPending
  /\ dcall.pc = "probing"
  /\ outcome \in RequestOutcomesOn(dcall.controller)
  /\ LET r == isLocalAIOnline(urlConfigured, outcome)
     IN  dcall' = [dcall EXCEPT !.pc = "done", !.outcome = outcome, !.probeResult = r,
                                !.result = r,
                                !.abortTimer = AbortTimerAfter(dcall, outcome)]
  /\ UNCHANGED <<mainVars, timeoutVars, pureVars, dropLog, gens, controllerCache, hNow, serviceUp,
                 urlConfigured, serviceStatusCache, hcalls, ccall>>

\* the timer armed by the direct call fires: controller.abort()
DirectAbortTimerFires ==
  /\ ~MicrotaskPending
  /\ dcall.abortTimer = "armed"
  /\ hNow >= dcall.start + HEALTH_CHECK
  /\ dcall' = [dcall EXCEPT !.abortTimer = "fired"]
  /\ UNCHANGED <<mainVars, timeoutVars, pureVars, dropLog, gens, controllerCache, hNow, serviceUp,
                 urlConfigured, serviceStatusCache, hcalls, ccall>>

\* the local backend goes down or comes back
ServiceFlip ==
  /\ serviceUp' = ~serviceUp
  /\ UNCHANGED <<mainVars, timeoutVars, pureVars, dropLog, gens, controllerCache, dcall, hNow, urlConfigured, serviceStatusCache,
                 hcalls, ccall>>

\* time passes
Tick(d) ==
  /\ ~MicrotaskPending
  /\ hNow + d <= MaxClock
  /\ hNow' = hNow + d
  /\ UNCHANGED <<mainVars, timeoutVars, pureVars, dropLog, gens, controllerCache, dcall, serviceUp, urlConfigured, serviceStatusCache,
                 hcalls, ccall>>

(* ---------------------------------------------------------------------- *)
(* The cancellation client: cancelLocalTask, cancelTask                    *)
(* ---------------------------------------------------------------------- *)

\* what a request of cancelTask comes back with: 2xx, another status, or a
\* rejected fetch
CancelStatuses == {"ok", "notok", "throws"}

\* the body of the DELETE response, as far as cancelTask looks into it
DeleteBodies == {"unparseable", "null", "no_message", "message_sucesso",
                 "message_other", "message_not_string"}

\* the DELETE answered 2xx: `return true` is reached, from the test of
\* data.message or from the catch of the inner try
IndicatesSuccess(body) ==
  CASE body = "unparseable"        -> TRUE    \* json() rejects; catch: return true
    [] body = "null"               -> TRUE    \* null.message throws; catch: return true
    [] body = "message_not_string" -> TRUE    \* includes is not a function; catch
    [] body = "message_sucesso"    -> TRUE    \* data.message.includes('sucesso')
    [] body = "no_message"         -> FALSE   \* undefined?.includes: falls through
    [] body = "message_other"      -> FALSE   \* falls through

\* the outer catch of cancelTask: return false
OnCancelError == "false"

\* cancelLocalTask(taskId): false without URL, else cancelTask up to the
\* DELETE request
CancelStart ==
  /\ ccall.pc = "idle"
  /\ IF ~urlConfigured
       THEN ccall' = [ccall EXCEPT !.pc = "done", !.result = "false"]
       ELSE ccall' = [ccall EXCEPT !.pc = "delete", !.requests = <<"DELETE">>]
  /\ UNCHANGED <<mainVars, timeoutVars, pureVars, dropLog, gens, controllerCache, dcall, hNow, serviceUp, urlConfigured,
                 serviceStatusCache, hcalls>>

\* the DELETE request settled
DeleteReturn(status) ==
  /\ ~MicrotaskPending
  /\ ccall.pc = "delete"
  /\ IF status = "throws"
       THEN ccall' = [ccall EXCEPT !.pc = "done", !.deleteStatus = status,
                                   !.result = OnCancelError]
       ELSE ccall' = [ccall EXCEPT !.pc = "deleteBody", !.deleteStatus = status]
  /\ UNCHANGED <<mainVars, timeoutVars, pureVars, dropLog, gens, controllerCache, dcall, hNow, serviceUp, urlConfigured,
                 serviceStatusCache, hcalls>>

\* deleteResponse.json() settled: return true, or send the POST /cancel
DeleteBodyRead(body) ==
  /\ ~MicrotaskPending
  /\ ccall.pc = "deleteBody"
  /\ IF ccall.deleteStatus = "ok" /\ IndicatesSuccess(body)
       THEN ccall' = [ccall EXCEPT !.pc = "done", !.deleteBody = body, !.result = "true"]
       ELSE ccall' = [ccall EXCEPT !.pc = "post", !.deleteBody = body,
                                   !.requests = Append(@, "POST")]
  /\ UNCHANGED <<mainVars, timeoutVars, pureVars, dropLog, gens, controllerCache, dcall, hNow, serviceUp, urlConfigured,
                 serviceStatusCache, hcalls>>

\* the POST /cancel request settled
PostReturn(status) ==
  /\ ~MicrotaskPending
  /\ ccall.pc = "post"
  /\ ccall' = [ccall EXCEPT !.pc = "done", !.postStatus = status,
                            !.result = IF status = "throws" THEN OnCancelError
                                       ELSE BoolStr(status = "ok")]
  /\ UNCHANGED <<mainVars, timeoutVars, pureVars, dropLog, gens, controllerCache, dcall, hNow, serviceUp, urlConfigured,
                 serviceStatusCache, hcalls>>

\* a terminal message settled the last waiting task of the process, between
\* two steps of the probe: resolveTask or rejectTask runs cleanupControllers
LastTaskSettled ==
  /\ ~MicrotaskPending
  /\ controllerCache' = cleanupControllers
  /\ UNCHANGED <<mainVars, probeVars, timeoutVars, pureVars, dropLog, gens>>

\* the process starts with or without LOCAL_AI_URL
ClientInit ==
  /\ MainInit
  /\ cmd = "imaginePro"
  /\ TimeoutIdle
  /\ PureIdle
  /\ DropIdle
  /\ GensIdle
  /\ hNow = 0
  /\ serviceUp \in BOOLEAN
  /\ urlConfigured \in BOOLEAN
  /\ serviceStatusCache = NoCacheEntry
  /\ hcalls = <<>>
  /\ ccall = IdleCancelCall
  /\ dcall = IdleHealthCall
  /\ controllerCache = NoController

\* the health probe: calls through the cache and a call made by a command
\* itself, which share the controller cache
ClientNext ==
  \/ \E i \in HealthCalls : HealthCallStart(i)
  \/ \E i \in HealthCalls : HealthCallResume(i)
  \/ \E i \in HealthCalls, outcome \in ProbeOutcomes : HealthProbeReturn(i, outcome)
  \/ \E k \in HealthCalls : AbortTimerFires(k)
  \/ DirectProbeStart
  \/ \E outcome \in ProbeOutcomes : DirectProbeReturn(outcome)
  \/ DirectAbortTimerFires
  \/ LastTaskSettled
  \/ ServiceFlip
  \/ \E d \in TickSteps : Tick(d)

ClientSpec == ClientInit /\ [][ClientNext]_vars

\* the two calls a command makes itself: isLocalAIOnline() and
\* cancelLocalTask(taskId)
CallsNext ==
  \/ DirectProbeStart
  \/ \E outcome \in ProbeOutcomes : DirectProbeReturn(outcome)
  \/ DirectAbortTimerFires
  \/ CancelStart
  \/ \E status \in CancelStatuses : DeleteReturn(status)
  \/ \E body \in DeleteBodies : DeleteBodyRead(body)
  \/ \E status \in CancelStatuses : PostReturn(status)
  \/ LastTaskSettled
  \/ ServiceFlip
  \/ \E d \in TickSteps : Tick(d)

CallsSpec == ClientInit /\ [][CallsNext]_vars

\* what the code itself guarantees to happen: a pending /health request
\* comes back, with the backend's answer or with the AbortError that the
\* timer of isLocalAIOnline causes; cancelTask passes no
\* signal to its requests and arms no timer, so nothing in the code makes
\* its DELETE or POST come back
CallsFairness ==
  WF_vars(\E outcome \in ProbeOutcomes : DirectProbeReturn(outcome))

CallsFairSpec == CallsSpec /\ CallsFairness

(* ---------------------------------------------------------------------- *)
(* The timeout estimator: calculateTimeout.  Times are in ms.  A number is *)
(* NaN or a value; the image sides are multiples of 256, so that           *)
(* megapixels is a whole number of sixteenths; cfgScale is given in        *)
(* halves (cfg2 = 15 is a guidance scale of 7.5).                          *)
(* ---------------------------------------------------------------------- *)

Num(v) == [nan |-> FALSE, v |-> v]

NaN == [nan |-> TRUE, v |-> 0]

\* a + b
Add(a, b) == IF a.nan \/ b.nan THEN NaN ELSE Num(a.v + b.v)

\* a * b
Mul(a, b) == IF a.nan \/ b.nan THEN NaN ELSE Num(a.v * b.v)

\* a > b: false when either is NaN
GreaterThan(a, b) == ~a.nan /\ ~b.nan /\ a.v > b.v

\* a < b: false when either is NaN
LessThan(a, b) == ~a.nan /\ ~b.nan /\ a.v < b.v

\* Math.min(a, b): NaN when either is NaN
MathMin(a, b) ==
  IF a.nan \/ b.nan THEN NaN ELSE IF a.v <= b.v THEN a ELSE b

\* a configuration within the ranges of envSchema under which the maximum
\* is reached
TightTimeoutConfig ==
  [AI_TIMEOUT_BASE |-> 1800, AI_TIMEOUT_PER_STEP |-> 120, AI_TIMEOUT_PER_MP |-> 600,
   AI_TIMEOUT_HIGH_CFG |-> 300, AI_TIMEOUT_MAX |-> 3600]

TimeoutConfigs == {DefaultTimeoutConfig, TightTimeoutConfig}

BASE_TIMEOUT == Num(tConfig.AI_TIMEOUT_BASE * 1000)

TIMEOUT_PER_STEP == Num(tConfig.AI_TIMEOUT_PER_STEP * 1000)

TIMEOUT_PER_MEGAPIXEL == Num(tConfig.AI_TIMEOUT_PER_MP * 1000)

TIMEOUT_HIGH_CFG_PENALTY == Num(tConfig.AI_TIMEOUT_HIGH_CFG * 1000)

MAX_TIMEOUT == Num(tConfig.AI_TIMEOUT_MAX * 1000)

\* the arguments calculateTimeout is called with
TimeoutSteps == {NaN, Num(-10), Num(10), Num(20), Num(100)}

TimeoutWidths == {NaN, Num(-1024), Num(512), Num(1024)}

TimeoutHeights == {Num(-1024), Num(1024), Num(2048)}

TimeoutCfg2 == {NaN, Num(-2), Num(15), Num(20), Num(21), Num(40)}

\* steps * TIMEOUT_PER_STEP
StepIncrement(steps) == Mul(steps, TIMEOUT_PER_STEP)

\* (width * height) / (1024 * 1024), in sixteenths
Megapixels16(width, height) ==
  LET area == Mul(width, height)
  IN  IF area.nan THEN NaN ELSE Num(area.v \div (256 * 256))

\* if (megapixels > 1) (megapixels - 1) * TIMEOUT_PER_MEGAPIXEL, else 0
ResolutionIncrement(width, height) ==
  LET mp == Megapixels16(width, height)
  IN  IF GreaterThan(mp, Num(16))
        THEN Num(((mp.v - 16) * TIMEOUT_PER_MEGAPIXEL.v) \div 16)
        ELSE Num(0)

\* a CFG increment without the test cfgScale > 10
CfgIncrement_Unguarded(cfg2) ==
  IF cfg2.nan THEN NaN ELSE Num(((cfg2.v - 20) * TIMEOUT_HIGH_CFG_PENALTY.v) \div 2)

\* if (cfgScale > 10) (cfgScale - 10) * TIMEOUT_HIGH_CFG_PENALTY, else 0
CfgIncrement(cfg2) ==
  IF GreaterThan(cfg2, Num(20))
    THEN Num(((cfg2.v - 20) * TIMEOUT_HIGH_CFG_PENALTY.v) \div 2)
    ELSE Num(0)

\* BASE_TIMEOUT plus the three increments
CalculatedTimeout(steps, width, height, cfg2) ==
  Add(Add(Add(BASE_TIMEOUT, StepIncrement(steps)),
          ResolutionIncrement(width, height)),
      CfgIncrement(cfg2))

\* a limit that is not applied
ApplyLimit_Unlimited(calculated) == calculated

\* Math.min(calculatedTimeout, MAX_TIMEOUT)
ApplyLimit(calculated) == MathMin(calculated, MAX_TIMEOUT)

\* calculateTimeout(steps, width, height, cfgScale): timeout and wasLimited
calculateTimeout(steps, width, height, cfg2) ==
  LET calculated   == CalculatedTimeout(steps, width, height, cfg2)
      finalTimeout == ApplyLimit(calculated)
  IN  [timeout |-> finalTimeout, wasLimited |-> LessThan(finalTimeout, calculated)]

\* calculateTimeout is called; a run compares two calls
CalcTimeout(steps, width, height, cfg2) ==
  /\ ~tPrev.called
  /\ tPrev' = tCur
  /\ tCur' = LET r == calculateTimeout(steps, width, height, cfg2)
             IN  [called |-> TRUE, steps |-> steps, width |-> width,
                  height |-> height, cfg2 |-> cfg2,
                  timeout |-> r.timeout, wasLimited |-> r.wasLimited]
  /\ UNCHANGED <<mainVars, clientVars, pureVars, dropLog, gens, tConfig>>

\* the process starts with a configuration
TimeoutInit ==
  /\ MainInit
  /\ cmd = "imaginePro"
  /\ ClientIdle
  /\ PureIdle
  /\ DropIdle
  /\ GensIdle
  /\ tConfig \in TimeoutConfigs
  /\ tPrev = NoTimeoutCall
  /\ tCur = NoTimeoutCall

TimeoutNext ==
  \E steps \in TimeoutSteps, width \in TimeoutWidths,
     height \in TimeoutHeights, cfg2 \in TimeoutCfg2 :
       CalcTimeout(steps, width, height, cfg2)

TimeoutSpec == TimeoutInit /\ [][TimeoutNext]_vars

(* ---------------------------------------------------------------------- *)
(* The result normalizer, called on its own                                *)
(* ---------------------------------------------------------------------- *)

\* the record of a call: the function, its argument and what it returned;
\* the call before it is kept, and two calls are made
Called(fn, in, out) ==
  /\ ~fPrev.called
  /\ fPrev' = fCur
  /\ fCur' = [called |-> TRUE, fn |-> fn, in |-> in, out |-> out]
  /\ UNCHANGED <<mainVars, clientVars, timeoutVars, dropLog, gens>>

\* generateImage is called and the webhook answers with r
GenerateImageCall(r) == Called("generateImage", r, generateImage(r))

\* processImageBase64 is called with a payload
ProcessImageBase64Call(payload) ==
  Called("processImageBase64", payload, processImageBase64(payload))

\* progress values of a 'processing' message: percent, or a fraction of 1
ProgressValues == {0, 1, 30, 100, 150}

\* /imagine: Math.round(progress.progress || 0) of buildProcessingStatus
ImagineShown(p) == p

\* /imagine-pro: the percentage of the progress embed; no embed is written
\* for a percentage of 100 or more
NothingShown == -1

ProShown(p) ==
  IF ProgressPercentage(p) >= 100 THEN NothingShown ELSE ProgressPercentage(p)

\* onmessage hands a parsed 'processing' message with progress p to the
\* progress callback of the command c: what the callback receives, and the
\* percentage it writes to the reply
ProgressDelivery(c, p) ==
  [sink |-> p, shown |-> IF c = "imaginePro" THEN ProShown(p) ELSE ImagineShown(p)]

ProgressCall(c, p) == Called("progressCallback", [cmd |-> c, progress |-> p],
                             ProgressDelivery(c, p))

NormalizerInit ==
  /\ MainInit
  /\ cmd = "imaginePro"
  /\ ClientIdle
  /\ TimeoutIdle
  /\ PureIdle
  /\ DropIdle
  /\ GensIdle

NormalizerNext ==
  \/ \E r \in RemoteResponses : GenerateImageCall(r)
  \/ \E payload \in Payloads : ProcessImageBase64Call(payload)
  \/ \E c \in Commands, p \in ProgressValues : ProgressCall(c, p)

NormalizerSpec == NormalizerInit /\ [][NormalizerNext]_vars

(* ---------------------------------------------------------------------- *)
(* The local path with a backend that also sends malformed messages; the   *)
(* user does not click and the remote path is not followed                 *)
(* ---------------------------------------------------------------------- *)

MonitorNext ==
  \/ \E online \in BOOLEAN : HealthResult(online)
  \/ \E accepted \in BOOLEAN : SubmitResult(accepted)
  \/ WsOpen
  \/ \E e \in Events : WsMessage(e)
  \/ \E m \in MalformedMessages : WsMalformed(m)
  \/ \E code \in CloseCodes : WsClose(code)
  \/ ReconnectTimer
  \/ StopTimer
  \/ WaitTimeout
  \/ GenResume
  \/ \E outcome \in DownloadOutcomes : DownloadFetchReturn(outcome)
  \/ \E read \in BOOLEAN : DownloadBodyRead(read)
  \/ \E outcome \in CommandFetchOutcomes : CommandFetchReturn(outcome)
  \/ \E read \in BOOLEAN : CommandBodyRead(read)
  \/ RenderDone

MonitorSpec == Init /\ [][MonitorNext]_vars

(* ---------------------------------------------------------------------- *)
(* Specification                                                           *)
(* ---------------------------------------------------------------------- *)

Next ==
  \/ \E online \in BOOLEAN : HealthResult(online)
  \/ \E accepted \in BOOLEAN : SubmitResult(accepted)
  \/ WsOpen
  \/ \E e \in Events : WsMessage(e)
  \/ \E code \in CloseCodes : WsClose(code)
  \/ ReconnectTimer
  \/ StopTimer
  \/ WaitTimeout
  \/ GenResume
  \/ \E outcome \in DownloadOutcomes : DownloadFetchReturn(outcome)
  \/ \E read \in BOOLEAN : DownloadBodyRead(read)
  \/ \E outcome \in CommandFetchOutcomes : CommandFetchReturn(outcome)
  \/ \E read \in BOOLEAN : CommandBodyRead(read)
  \/ RenderDone
  \/ \E configured \in BOOLEAN : RemoteStart(configured)
  \/ \E r \in RemoteCases, isUserSuper \in BOOLEAN : RemoteResult(r, isUserSuper)
  \/ RemoteRenderDone
  \/ UserClick
  \/ \E deferred \in BOOLEAN : CancelDeferred(deferred)
  \/ \E success \in BOOLEAN : CancelResult(success)
  \/ \E resolved \in BOOLEAN : CancelReplyDone(resolved)
  \/ \E resolved \in BOOLEAN : CancelErrorReplyDone(resolved)
  \/ CollectorTimeout

Spec == Init /\ [][Next]_vars

\* timers fire, continuations run, and the request that a timer aborts
\* comes back; the body read of the download, which no timer bounds, need not
Fairness ==
  /\ WF_vars(WaitTimeout)
  /\ WF_vars(GenResume)
  /\ WF_vars(\E outcome \in DownloadOutcomes : DownloadFetchReturn(outcome))

FairSpec == Spec /\ Fairness

\* the outcome of the invocation, as the reply shows it
Outcome ==
  CASE lastRender = "success" -> "Succeeded"
    [] lastRender \in {"cancelRequested", "cancelled"} -> "Cancelled"
    [] lastRender \in {"error", "policy"} -> "Failed"
    [] lastRender = "cancelError" -> "CancelError"
    [] OTHER -> "None"

\* command.execute and the collect handler have run to their end, the
\* handler to its last statement ("done") or out of a rejected Discord call
\* ("caught")
Finished == pc = "done" /\ cpc \in {"idle", "done", "caught"}

TypeOK ==
  /\ cmd \in Commands
  /\ pc \in {"probe", "submit", "await", "download", "downloadBody", "commandDownload",
            "commandBody", "render", "remote", "remoteRender", "done"}
  /\ updatesPending \in 0..MaxHandlers
  /\ cpc \in {"idle", "defer", "cancelling", "reply", "errorReply", "done", "caught"}
  /\ taskResolvers \subseteq JobIds
  /\ waitTimer \subseteq JobIds
  /\ promise \in {"none", "pending", "resolved", "rejected"}
  /\ wsState \in {"none", "connecting", "open", "closing", "closed"}
  /\ reconnectAttempts \in 0..maxReconnectAttempts
  /\ Len(received) <= MaxEvents

(* ---------------------------------------------------------------------- *)
(* Two /imagine-pro generations of one user in one channel, both past the  *)
(* health probe.  The taskResolvers table is the one of the process; each  *)
(* generation has its own task id, promise, monitor and command locals.    *)
(* ---------------------------------------------------------------------- *)

\* number of stream messages the backend sends to each of the two generations
MaxPairEvents == 2

Invocations == {"A", "B"}

\* the task id the backend returns to the submit of each generation
TaskIdOf(a) == IF a = "A" THEN "j1" ELSE "j2"

\* one generation, its reply showing the cancel button and its collector
\* listening, before submitGeneration returned
NewGeneration ==
  [pc |-> "submit", taskId |-> NoJob, promise |-> "none", ws |-> "none",
   isCompleted |-> FALSE, reconnectAttempts |-> 0, reconnectTimer |-> NoTimer,
   stopTimer |-> 0, handled |-> 0, currentTaskId |-> NoJob,
   cancelled |-> FALSE, collector |-> TRUE, cpc |-> "idle"]

\* the variables of the single invocation and of the functions called on
\* their own
soloVars == <<mainVars, clientVars, timeoutVars, pureVars, dropLog>>

\* taskResolvers.get(id): the entries are [id, owner], the owner being the
\* generation whose promise the entry's resolve and reject settle
EntriesOf(g, id) == {r \in g.taskResolvers : r.id = id}

\* resolve or reject of the promise of generation a; a settled promise
\* ignores it
SettleOf(g, a, to) ==
  [g EXCEPT !.inv[a].promise = IF @ = "pending" THEN to ELSE @]

\* a resolveTask that empties the table and clears every timer
resolveTaskIn_Clear(g, id) ==
  IF EntriesOf(g, id) = {} THEN g
  ELSE LET r == CHOOSE r \in EntriesOf(g, id) : TRUE
       IN  SettleOf([g EXCEPT !.timers = {}, !.taskResolvers = {}],
                    r.owner, "resolved")

\* resolveTask(id, status) on the table of g
resolveTaskIn(g, id) ==
  IF EntriesOf(g, id) = {} THEN g
  ELSE LET r == CHOOSE r \in EntriesOf(g, id) : TRUE
       IN  SettleOf([g EXCEPT !.timers = @ \ {id},
                              !.taskResolvers = @ \ EntriesOf(g, id)],
                    r.owner, "resolved")

\* rejectTask(id, error) on the table of g
rejectTaskIn(g, id) ==
  IF EntriesOf(g, id) = {} THEN g
  ELSE LET r == CHOOSE r \in EntriesOf(g, id) : TRUE
       IN  SettleOf([g EXCEPT !.timers = @ \ {id},
                              !.taskResolvers = @ \ EntriesOf(g, id)],
                    r.owner, "rejected")

\* waitForCompletion(id, timeoutMs, false), called by generation a:
\* taskResolvers.set replaces an entry of the same id
waitForCompletionIn(g, a, id) ==
  [g EXCEPT !.timers = @ \cup {id},
            !.taskResolvers = (@ \ EntriesOf(g, id)) \cup {[id |-> id, owner |-> a]},
            !.inv[a].promise = "pending"]

\* stop() of the monitor of a generation
stopOf(m) == [m EXCEPT !.isCompleted = TRUE, !.ws = ClosedByUs(@)]

\* the reconnect condition of ws.onclose, on the fields of one monitor
ShouldReconnectOf(m, code) ==
  /\ code # NormalClosure
  /\ ~m.isCompleted
  /\ m.reconnectAttempts < maxReconnectAttempts

\* progressCallback of generation a, as far as it writes the locals
progressCallbackOf(g, a, e) ==
  IF g.inv[a].cancelled THEN g
  ELSE [g EXCEPT !.inv[a].currentTaskId =
                    IF e.task_id # "undefined" /\ @ = NoJob THEN e.task_id ELSE @]

\* handleTaskCompletion of the monitor of generation a
handleTaskCompletionOf(g, a, e) ==
  IF e.status \in TerminalStatuses
    THEN LET g1 == [g EXCEPT !.inv[a].isCompleted = TRUE, !.inv[a].stopTimer = @ + 1]
         IN  IF e.status = "completed"
               THEN resolveTaskIn(g1, g.inv[a].taskId)
               ELSE rejectTaskIn(g1, g.inv[a].taskId)
    ELSE g

\* ws.onmessage of the monitor of generation a, for a message that parses
onmessageOf(g, a, e) ==
  LET g0 == [g EXCEPT !.inv[a].handled = @ + 1]
  IN  IF LogThrows(e) THEN g0
      ELSE handleTaskCompletionOf(
             IF ~g.inv[a].isCompleted THEN progressCallbackOf(g0, a, e) ELSE g0, a, e)

\* ws.onclose of one monitor
oncloseOf(m, code) ==
  LET m1 == [m EXCEPT !.ws = IF @ = "closing" THEN "none" ELSE "closed"]
  IN  IF ShouldReconnectOf(m, code)
        THEN [m1 EXCEPT !.reconnectAttempts = @ + 1,
                        !.reconnectTimer = ReconnectDelay(m.reconnectAttempts + 1)]
        ELSE m1

\* the customId of the cancel button on the reply of a generation
CustomIdOf(a) == "cancel_generation"

\* the filter of the collector of generation c, for a click on the button of
\* generation a by the user of both: the collector listens on the channel
CollectorFilter(c, a) == CustomIdOf(a) = "cancel_generation"

\* the synchronous part of 'collect' of generation c
collectOf(m) ==
  IF m.currentTaskId # NoJob /\ ~m.cancelled
    THEN [m EXCEPT !.cancelled = TRUE, !.cpc = "defer"]
    ELSE m

\* submitGeneration of generation a returned its task id: the monitor is
\* started and the wait registered
PairSubmit(a) ==
  /\ gens.inv[a].pc = "submit"
  /\ gens' = waitForCompletionIn(
               [gens EXCEPT !.inv[a].pc = "await", !.inv[a].taskId = TaskIdOf(a),
                            !.inv[a].ws = "connecting"],
               a, TaskIdOf(a))
  /\ UNCHANGED soloVars

PairWsOpen(a) ==
  /\ gens.inv[a].ws = "connecting"
  /\ gens' = [gens EXCEPT !.inv[a].ws = "open", !.inv[a].reconnectAttempts = 0]
  /\ UNCHANGED soloVars

\* ws.onmessage of the monitor of generation a; when resolveTask or
\* rejectTask found its entry and left the table empty, cleanupControllers
PairWsMessage(a, e) ==
  /\ gens.inv[a].ws \in {"open", "closing"}
  /\ gens.inv[a].handled < MaxPairEvents
  /\ gens' = onmessageOf(gens, a, e)
  /\ controllerCache' =
       IF gens'.taskResolvers # gens.taskResolvers /\ gens'.taskResolvers = {}
         THEN cleanupControllers
         ELSE controllerCache
  /\ UNCHANGED <<mainVars, probeVars, timeoutVars, pureVars, dropLog>>

PairWsClose(a, code) ==
  /\ gens.inv[a].ws \in {"connecting", "open", "closing"}
  /\ gens' = [gens EXCEPT !.inv[a] = oncloseOf(@, code)]
  /\ UNCHANGED soloVars

\* the reconnect timer of the monitor of generation a
PairReconnectTimer(a) ==
  /\ gens.inv[a].reconnectTimer # NoTimer
  /\ gens' = [gens EXCEPT !.inv[a].reconnectTimer = NoTimer,
                          !.inv[a].ws = IF ~gens.inv[a].isCompleted
                                          THEN "connecting" ELSE @]
  /\ UNCHANGED soloVars

\* the post-terminal stop timer of the monitor of generation a
PairStopTimer(a) ==
  /\ gens.inv[a].stopTimer > 0
  /\ gens' = [gens EXCEPT !.inv[a] = stopOf([@ EXCEPT !.stopTimer = @ - 1])]
  /\ UNCHANGED soloVars

\* the wait-timeout callback of the wait of generation a
PairWaitTimeout(a) ==
  /\ TaskIdOf(a) \in gens.timers
  /\ gens' = SettleOf([gens EXCEPT !.timers = @ \ {TaskIdOf(a)},
                                   !.taskResolvers = @ \ EntriesOf(gens, TaskIdOf(a))],
                      a, "rejected")
  /\ UNCHANGED soloVars

\* the continuation of `await waitForCompletion(...)` of generation a, up
\* to collector.stop() of the command
PairGenResume(a) ==
  /\ gens.inv[a].pc = "await"
  /\ gens.inv[a].promise \in {"resolved", "rejected"}
  /\ gens' = [gens EXCEPT !.inv[a] = [stopOf(@) EXCEPT !.pc = "returned",
                                                       !.collector = FALSE]]
  /\ UNCHANGED soloVars

\* the user clicks the cancel button on the reply of generation a, once in a
\* run: every collector whose filter accepts the click runs its 'collect'
\* handler.  The reply of a returned generation still shows the button: no
\* edit with components: [] has resolved when the generation returns
PairClick(a) ==
  /\ gens.clicked = {}
  /\ gens' = [gens EXCEPT
       !.clicked = @ \cup {a},
       !.inv = [c \in Invocations |->
                  IF gens.inv[c].collector /\ CollectorFilter(c, a)
                    THEN collectOf(gens.inv[c])
                    ELSE gens.inv[c]]]
  /\ UNCHANGED soloVars

\* 'collect' of generation c after deferUpdate: cancelLocalTask(currentTaskId);
\* the command's `monitor` is null until the generation has returned, and a
\* returned monitor was stopped, ws = null, so forceStop changes nothing
PairCancelDeferred(c) ==
  /\ gens.inv[c].cpc = "defer"
  /\ gens' = [gens EXCEPT !.inv[c].cpc = "cancelling",
                          !.cancelRequests = @ \cup {gens.inv[c].currentTaskId}]
  /\ UNCHANGED soloVars

\* 'collect' of generation c after cancelLocalTask returned true or false:
\* the editReply of the cancel embed is issued
PairCancelResult(c) ==
  /\ gens.inv[c].cpc = "cancelling"
  /\ gens' = [gens EXCEPT !.inv[c].cpc = "reply"]
  /\ UNCHANGED soloVars

\* 'collect' of generation c once that editReply settled: resolved,
\* collector.stop(); rejected, the catch block issues its own editReply
PairCancelReplyDone(c, resolved) ==
  /\ gens.inv[c].cpc = "reply"
  /\ gens' = IF resolved
               THEN [gens EXCEPT !.inv[c].cpc = "done", !.inv[c].collector = FALSE]
               ELSE [gens EXCEPT !.inv[c].cpc = "errorReply"]
  /\ UNCHANGED soloVars

\* 'collect' of generation c when deferUpdate was rejected: the catch block
\* issues its editReply, cancelLocalTask is not called
PairDeferRejected(c) ==
  /\ gens.inv[c].cpc = "defer"
  /\ gens' = [gens EXCEPT !.inv[c].cpc = "errorReply"]
  /\ UNCHANGED soloVars

\* 'collect' of generation c once the editReply of the catch block settled:
\* the handler ends without collector.stop()
PairCancelErrorReplyDone(c) ==
  /\ gens.inv[c].cpc = "errorReply"
  /\ gens' = [gens EXCEPT !.inv[c].cpc = "caught"]
  /\ UNCHANGED soloVars

\* the 5 minutes of the collector of generation a are over (time: 300000)
PairCollectorTimeout(a) ==
  /\ gens.inv[a].collector
  /\ gens' = [gens EXCEPT !.inv[a].collector = FALSE]
  /\ UNCHANGED soloVars

PairInit ==
  /\ MainInit
  /\ cmd = "imaginePro"
  /\ ClientIdle
  /\ TimeoutIdle
  /\ PureIdle
  /\ DropIdle
  /\ gens = [on |-> TRUE, taskResolvers |-> {}, timers |-> {}, cancelRequests |-> {},
             clicked |-> {}, inv |-> [a \in Invocations |-> NewGeneration]]

\* the two generations up to their return: submit, stream, wait
PairNext ==
  \/ \E a \in Invocations : PairSubmit(a)
  \/ \E a \in Invocations : PairWsOpen(a)
  \/ \E a \in Invocations : \E e \in EventsOf(TaskIdOf(a)) : PairWsMessage(a, e)
  \/ \E a \in Invocations, code \in CloseCodes : PairWsClose(a, code)
  \/ \E a \in Invocations : PairReconnectTimer(a)
  \/ \E a \in Invocations : PairStopTimer(a)
  \/ \E a \in Invocations : PairWaitTimeout(a)
  \/ \E a \in Invocations : PairGenResume(a)

\* the two generations while their streams stay up, with the cancel button:
\* the click, the 'collect' handlers and the end of the collectors
PairClickNext ==
  \/ \E a \in Invocations : PairSubmit(a)
  \/ \E a \in Invocations : PairWsOpen(a)
  \/ \E a \in Invocations : \E e \in EventsOf(TaskIdOf(a)) : PairWsMessage(a, e)
  \/ \E a \in Invocations : PairWaitTimeout(a)
  \/ \E a \in Invocations : PairGenResume(a)
  \/ \E a \in Invocations : PairClick(a)
  \/ \E c \in Invocations : PairCancelDeferred(c)
  \/ \E c \in Invocations : PairDeferRejected(c)
  \/ \E c \in Invocations : PairCancelResult(c)
  \/ \E c \in Invocations, resolved \in BOOLEAN : PairCancelReplyDone(c, resolved)
  \/ \E c \in Invocations : PairCancelErrorReplyDone(c)
  \/ \E a \in Invocations : PairCollectorTimeout(a)

PairClickSpec == PairInit /\ [][PairClickNext]_vars

\* every step of the two generations together
PairAllSpec == PairInit /\ [][PairNext \/ PairClickNext]_vars

PairSpec == PairInit /\ [][PairNext]_vars

(* ---------------------------------------------------------------------- *)
(* Properties                                                              *)
(* ---------------------------------------------------------------------- *)

\* the messages of a history that carry a terminal status
TerminalIn(h) == {i \in 1..Len(h) : h[i].status \in TerminalStatuses}

\* C1: the promise returned by waitForCompletion in stream mode is settled at
\* most once: among resolveTask, rejectTask and the wait-timeout only the
\* first one calls resolve or reject, every later one finds no entry.
C1_SettledAtMostOnce ==
  /\ settleCalls <= 1
  /\ (promise \in {"resolved", "rejected"}) = (settleCalls = 1)
  /\ promise = "resolved" => settledBy = "completed"
  /\ promise = "rejected" => settledBy \in {"failed", "cancelled", "timeout"}

\* C1 witness: the wait-timeout fired first and a 'completed' message was
\* handled afterwards (resolveTask found no entry)
C1_Witness ==
  /\ settledBy = "timeout"
  /\ settleCalls = 1
  /\ \E i \in 1..Len(sinkCalls) : sinkCalls[i].status = "completed"

\* generateImageLocalWithProgressAndMonitor has not returned to the command
InGeneration == pc \in {"await", "download", "downloadBody"}

C4_ClickCancelsJob ==
  (clickInFlight /\ Finished) =>
    /\ taskId \in cancelRequests
    /\ Outcome = "Cancelled"

\* C5: once the user's cancellation of a running job has been processed up to
\* the cancel request, the monitor is torn down and the generation no longer
\* waits on the PendingWait, whatever the backend answers.
C5_CancelStopsListening ==
  (cancelInFlight /\ cpc \in {"cancelling", "reply", "done"}) =>
    /\ isCompleted
    /\ wsState \notin {"connecting", "open"}
    /\ taskResolvers = {}
    /\ pc # "await"

\* C6: once the local backend accepted a job, the remote backend is never
\* called for the invocation, whatever happens to the job.
C6_NoFallbackAfterAccept ==
  taskId # NoJob => (pc # "remote" /\ remoteInvocations = 0)

\* C7: when the submission fails before any job id exists, the remote path is
\* invoked exactly once and no local cancellation request is issued.
C7_SubmitFailureFallsBack ==
  (localOnline = "yes" /\ taskId = NoJob /\ Finished) =>
    /\ remoteInvocations = 1
    /\ cancelRequests = {}

\* C8: when the one HTTP call of the remote path fails, the invocation ends as
\* Failed with an error written to the reply.
C8_RemoteFailureIsReported ==
  (Finished /\ remoteInvocations = 1 /\ remoteCalls = 1 /\ remoteResult.kind = "null") =>
    Outcome = "Failed"

\* C9: when the messages received so far are non-terminal ones followed by one
\* terminal message, and the wait-timeout has not fired, the sink was invoked
\* once per message in arrival order and the PendingWait was settled exactly
\* once by that terminal message: resolved on 'completed', rejected otherwise.
C9_SinkPerEventThenSettle ==
  LET n == Len(received) IN
  (n > 0 /\ TerminalIn(received) = {n} /\ settledBy # "timeout") =>
    /\ Len(sinkCalls) = n
    /\ \A i \in 1..n : /\ sinkCalls[i].arrival = i
                        /\ sinkCalls[i].status = received[i].status
    /\ settleCalls = 1
    /\ settledBy = received[n].status
    /\ promise = IF received[n].status = "completed" THEN "resolved" ELSE "rejected"

\* C10: the sink receives at most one terminal message, and no message that
\* arrived after a terminal message is forwarded to the sink.
C10_NothingAfterTerminal ==
  /\ Cardinality(TerminalIn(sinkCalls)) <= 1
  /\ \A i \in 1..Len(sinkCalls) :
       \A j \in TerminalIn(received) : sinkCalls[i].arrival <= j

\* a call of the cached probe made a request that failed
ProbeFailed(c) ==
  c.pc = "done" /\ c.outcome \in {"non2xx", "network_error", "abort"}

\* C11: two calls of the cached health probe for the same key made within
\* the minimum re-check interval return the same value, and the second one
\* issues no probe, whatever happened to the service in between.
C11_SecondCallUsesCache ==
  \A i, j \in DOMAIN hcalls :
    (/\ i < j
     /\ hcalls[i].pc = "done"
     /\ hcalls[j].pc = "done"
     /\ hcalls[j].start - hcalls[i].start < MIN_CHECK_INTERVAL)
    => (hcalls[j].result = hcalls[i].result /\ ~hcalls[j].probed)

\* C12: a probe that fails while a cache entry exists returns the last known
\* value of the entry and does not overwrite it with offline; without an
\* entry it returns false.
C12_FailedProbeKeepsLastKnown ==
  \A i \in DOMAIN hcalls :
    ProbeFailed(hcalls[i]) =>
      IF hcalls[i].cached.present
        THEN /\ hcalls[i].result = BoolStr(hcalls[i].cached.isOnline)
             /\ hcalls[i].cached.isOnline => hcalls[i].cacheAfter.isOnline
        ELSE hcalls[i].result = "false"

\* the status of the last response cancelTask received is not 2xx
LastStatusNotOk(c) ==
  \/ c.postStatus = "notok"
  \/ c.postStatus = "none" /\ c.deleteStatus = "notok"

\* C13, as stated: isLocalAIOnline and cancelTask never throw or reject:
\* every failure (missing URL, connection error, abort/timeout, non-2xx
\* status, unparseable body) is converted to the boolean result false.
C13_EveryFailureIsFalse ==
  /\ dcall.pc = "done" =>
       /\ dcall.probeResult \in {"true", "false"}
       /\ (~urlConfigured \/ dcall.outcome # "ok") => dcall.probeResult = "false"
  /\ ccall.pc = "done" =>
       /\ ccall.result \in {"true", "false"}
       /\ (~urlConfigured \/ "throws" \in {ccall.deleteStatus, ccall.postStatus})
            => ccall.result = "false"
       /\ LastStatusNotOk(ccall) => ccall.result = "false"
       /\ ccall.deleteBody = "unparseable" => ccall.result = "false"

\* C13, amended: isLocalAIOnline and cancelLocalTask/cancelTask never throw
\* or reject: every call that has returned settled with the boolean true or
\* false; with false when the URL is missing, a request was rejected
\* (connection error, abort) or the last response was not 2xx.  A body that
\* cannot be parsed is not a failure of the call: after a 2xx DELETE the
\* result is true, after another DELETE status it is that of the POST /cancel.
C13_ProbeAndCancelNeverThrow ==
  /\ dcall.pc = "done" =>
       /\ dcall.probeResult \in {"true", "false"}
       /\ (~urlConfigured \/ dcall.outcome # "ok") => dcall.probeResult = "false"
  /\ ccall.pc = "done" =>
       /\ ccall.result \in {"true", "false"}
       /\ (~urlConfigured \/ "throws" \in {ccall.deleteStatus, ccall.postStatus})
            => ccall.result = "false"
       /\ LastStatusNotOk(ccall) => ccall.result = "false"
       /\ ccall.deleteBody = "unparseable" =>
            ccall.result = IF ccall.deleteStatus = "ok" THEN "true"
                           ELSE BoolStr(ccall.postStatus = "ok")

\* a probe whose fetch was rejected returned false, and a cancellation whose
\* DELETE was answered 2xx with a body that cannot be parsed returned true
C13_Witness ==
  /\ dcall.pc = "done"
  /\ dcall.outcome = "network_error"
  /\ dcall.probeResult = "false"
  /\ ccall.pc = "done"
  /\ ccall.deleteStatus = "ok"
  /\ ccall.deleteBody = "unparseable"
  /\ ccall.result = "true"

\* C14: cancelTask returns true if and only if the DELETE or the POST /cancel
\* succeeded (2xx); the POST is sent only when the DELETE did not succeed;
\* at most two requests are sent, at most one of each kind.
C14_CancelTrueIffARequestSucceeded ==
  ccall.pc = "done" =>
    /\ (ccall.result = "true") = (ccall.deleteStatus = "ok" \/ ccall.postStatus = "ok")
    /\ (\E k \in 1..Len(ccall.requests) : ccall.requests[k] = "POST")
         => ccall.deleteStatus # "ok"
    /\ Len(ccall.requests) <= 2
    /\ \A k, l \in 1..Len(ccall.requests) :
         ccall.requests[k] = ccall.requests[l] => k = l

\* a call of calculateTimeout with the arguments in their ranges:
\* steps in 10..100, positive sides, guidance scale in 1..20
InRange(c) ==
  /\ c.called
  /\ ~c.steps.nan /\ c.steps.v >= 10 /\ c.steps.v <= 100
  /\ ~c.width.nan /\ c.width.v > 0
  /\ ~c.height.nan /\ c.height.v > 0
  /\ ~c.cfg2.nan /\ c.cfg2.v >= 2 /\ c.cfg2.v <= 40

\* width * height of a call with numeric sides
Area(c) == c.width.v * c.height.v

\* from call a to call b one of steps, area and guidance scale grew or
\* stayed, and the other two stayed
OneGrew(a, b) ==
  \/ a.steps.v <= b.steps.v /\ Area(a) = Area(b) /\ a.cfg2.v = b.cfg2.v
  \/ a.steps.v = b.steps.v /\ Area(a) <= Area(b) /\ a.cfg2.v = b.cfg2.v
  \/ a.steps.v = b.steps.v /\ Area(a) = Area(b) /\ a.cfg2.v <= b.cfg2.v

\* C15: the estimate is non-decreasing in each of steps, width x height and
\* guidance scale when the other two are fixed, and never exceeds the
\* configured maximum.
C15_EstimateMonotoneAndCapped ==
  /\ (InRange(tPrev) /\ InRange(tCur) /\ OneGrew(tPrev, tCur))
       => (~tPrev.timeout.nan /\ ~tCur.timeout.nan
           /\ tPrev.timeout.v <= tCur.timeout.v)
  /\ InRange(tCur) => (~tCur.timeout.nan /\ tCur.timeout.v <= MAX_TIMEOUT.v)

\* more steps gave a longer estimate, which reached the maximum
C15_Witness ==
  /\ InRange(tPrev) /\ InRange(tCur) /\ OneGrew(tPrev, tCur)
  /\ tPrev.steps.v < tCur.steps.v
  /\ tPrev.timeout.v < tCur.timeout.v
  /\ tCur.wasLimited
  /\ tCur.timeout = MAX_TIMEOUT

\* max(0, x)
Max0(x) == IF x > 0 THEN x ELSE 0

\* base + steps*perStep + max(0, megapixels-1)*perMP + max(0, cfg-10)*perCfg,
\* in ms, for a call with numeric arguments
ClaimedSum(c) ==
  tConfig.AI_TIMEOUT_BASE * 1000
  + c.steps.v * tConfig.AI_TIMEOUT_PER_STEP * 1000
  + (Max0(Area(c) - 1024 * 1024) \div (256 * 256)) * ((tConfig.AI_TIMEOUT_PER_MP * 1000) \div 16)
  + Max0(c.cfg2.v - 20) * ((tConfig.AI_TIMEOUT_HIGH_CFG * 1000) \div 2)

\* a call of calculateTimeout with numbers for all its arguments
Numeric(c) ==
  c.called /\ ~c.steps.nan /\ ~c.width.nan /\ ~c.height.nan /\ ~c.cfg2.nan

\* calculateTimeout(20, 1024, 1024, 7.5) under the default configuration
IsExampleCall(c) ==
  /\ tConfig = DefaultTimeoutConfig
  /\ c.called
  /\ c.steps = Num(20) /\ c.width = Num(1024) /\ c.height = Num(1024)
  /\ c.cfg2 = Num(15)

\* C16: calculateTimeout returns min(base + steps*perStep +
\* max(0, megapixels-1)*perMP + max(0, cfg-10)*perCfg, max), wasLimited is true
\* exactly when the sum exceeds max, and (20, 1024, 1024, 7.5) gives 2200 s,
\* unclamped, under the defaults.
C16_EstimateFormula ==
  /\ Numeric(tCur) =>
       /\ ~tCur.timeout.nan
       /\ tCur.timeout.v = (IF ClaimedSum(tCur) <= tConfig.AI_TIMEOUT_MAX * 1000
                              THEN ClaimedSum(tCur)
                              ELSE tConfig.AI_TIMEOUT_MAX * 1000)
       /\ tCur.wasLimited = (ClaimedSum(tCur) > tConfig.AI_TIMEOUT_MAX * 1000)
  /\ IsExampleCall(tCur) => (tCur.timeout = Num(2200 * 1000) /\ ~tCur.wasLimited)

\* the example call was made, after a call with more than one megapixel and
\* a guidance scale below 10
C16_Witness ==
  /\ IsExampleCall(tCur)
  /\ tCur.timeout.v = 2200 * 1000
  /\ Numeric(tPrev)
  /\ tPrev.cfg2.v < 20
  /\ Area(tPrev) > 1024 * 1024

\* a call of calculateTimeout with a negative or NaN argument
HasInvalidArgument(c) ==
  /\ c.called
  /\ \/ c.steps.nan \/ c.steps.v < 0
     \/ c.width.nan \/ c.width.v < 0
     \/ c.height.nan \/ c.height.v < 0
     \/ c.cfg2.nan \/ c.cfg2.v < 0

\* C17: a negative or NaN steps, width, height or guidance value contributes
\* zero to the estimate: the result is never NaN and never below the
\* configured base duration.
C17_InvalidContributesZero ==
  HasInvalidArgument(tCur) =>
    (~tCur.timeout.nan /\ tCur.timeout.v >= BASE_TIMEOUT.v)

\* generateImageLocalWithProgressAndMonitor has returned the result of a job
\* whose wait was settled
Returned == taskId # NoJob /\ promise \in {"resolved", "rejected"} /\ pc # "await"

\* C18: a job that reaches 'completed' without an output path is never
\* reported as a success: the result is an error of kind ProcessingFailed.
C18_NoOutputIsProcessingFailed ==
  (Returned /\ settledBy = "completed" /\ resolvedOut = "empty")
    => (genResult.kind = "error" /\ genResult.errType = "processing_failed")

\* C19: a job that ends with status 'cancelled' yields a result of error kind
\* Cancelled, whatever message the backend sent with the status.
C19_CancelledStatusIsCancelledKind ==
  (Returned /\ settledBy = "cancelled")
    => (genResult.kind = "error" /\ genResult.errType = "cancelled")

\* C20: a job that fails with a text containing an out-of-memory indicator
\* yields the error kind ResourceExhausted, any other failed job
\* ProcessingFailed.
C20_FailedStatusKinds ==
  (Returned /\ settledBy = "failed")
    => /\ genResult.kind = "error"
       /\ genResult.errType = IF Includes(errMsg, "CUDA out of memory")
                                THEN "resource_exhausted"
                                ELSE "processing_failed"

\* C21: every result returned to the caller has an image reference
\* (imageBuffer or imageUrl) or an error with a reason, never neither: the
\* data of the local path and the ProcessedImageData of the remote path,
\* whatever the type of the remote response.
C21_ImageOrReason ==
  /\ genResult.kind # "null" => (HasImage(genResult) \/ genResult.errType # "none")
  /\ remoteResult.kind = "data" =>
       (remoteResult.url \/ remoteResult.buffer \/ remoteResult.errType # "none")

\* the last call, or the one before it, was a call of fn
IsCallOf(c, fn) == c.called /\ c.fn = fn

\* a webhook response whose parsed body is d
BodyResponse(d) == [outcome |-> "body", data |-> d]

\* C22: a remote response that is a one-element array wrapping an object
\* normalizes to the same result as the bare object, and a zero-element
\* array yields the failure outcome of generateImage: null, no image.
C22_ArrayUnwrapped ==
  /\ (/\ IsCallOf(fPrev, "generateImage")
      /\ IsCallOf(fCur, "generateImage")
      /\ fPrev.in.outcome = "body"
      /\ fPrev.in.data.json = "object"
      /\ fCur.in = BodyResponse([json |-> "array", items |-> <<fPrev.in.data>>]))
     => fCur.out = fPrev.out
  /\ (/\ IsCallOf(fCur, "generateImage")
      /\ fCur.in = BodyResponse([json |-> "array", items |-> <<>>]))
     => fCur.out = ProcessedNull

\* a bare object gave a result with a decoded image, and the array that
\* wraps it gave the same result
C22_Witness ==
  /\ IsCallOf(fPrev, "generateImage")
  /\ IsCallOf(fCur, "generateImage")
  /\ fPrev.in.outcome = "body"
  /\ fPrev.in.data.json = "object"
  /\ fCur.in = BodyResponse([json |-> "array", items |-> <<fPrev.in.data>>])
  /\ fPrev.out.kind = "data"
  /\ fPrev.out.imageBuffer = [kind |-> "bytes", bytes |-> <<65, 66, 67>>]
  /\ fCur.out = fPrev.out

\* the object generateImage works on: the body, or the element of a
\* one-element array
ObjectOf(c) ==
  IF c.in.data.json = "array" THEN c.in.data.items[1] ELSE c.in.data

\* a call of generateImage whose response holds a JSON object
HasObject(c) ==
  /\ IsCallOf(c, "generateImage")
  /\ c.in.outcome = "body"
  /\ c.in.data # JsonNull
  /\ c.in.data.json = "array" => (Len(c.in.data.items) = 1 /\ c.in.data.items[1] # JsonNull)

\* C23: a remote response carrying meta.reason is returned as an error of
\* type content_policy_violation with exactly that reason, whether or not it
\* also carries an image; a response without meta.reason that lacks the
\* image, the model name or the type gives the failure outcome null.
C23_PolicyReasonSurfaced ==
  HasObject(fCur) =>
    /\ ObjectOf(fCur).reason # "" =>
         /\ fCur.out.kind = "data"
         /\ fCur.out.errType = "content_policy_violation"
         /\ fCur.out.reason = ObjectOf(fCur).reason
         /\ fCur.out.imageUrl = <<>> /\ fCur.out.imageBuffer = NullBuffer
    /\ (/\ ObjectOf(fCur).reason = ""
        /\ (ObjectOf(fCur).image = <<>> \/ ObjectOf(fCur).model = ""
              \/ ObjectOf(fCur).type = ""))
       => fCur.out = ProcessedNull

\* a response with a reason and no image was returned as a policy
\* violation, and before it a response with a reason and an image
C23_Witness ==
  /\ HasObject(fPrev) /\ HasObject(fCur)
  /\ ObjectOf(fPrev).reason # "" /\ ObjectOf(fPrev).image # <<>>
  /\ ObjectOf(fCur).reason # "" /\ ObjectOf(fCur).image = <<>>
  /\ fPrev.out.errType = "content_policy_violation"
  /\ fCur.out.errType = "content_policy_violation"
  /\ fCur.out.reason = ObjectOf(fCur).reason

\* the bytes processImageBase64 must return for the base64 text x
BytesOf(x) == [kind |-> "bytes", bytes |-> DecodeGroups(x)]

\* C24: processImageBase64 strips a data-URI header and a JSON envelope
\* with a b64_json field before decoding: for a non-empty base64 text X the
\* payloads "data:image/png;base64,X", {"b64_json":"X"} and the bare "X"
\* all decode to the bytes of X.
C24_HeaderAndEnvelopeStripped ==
  IsCallOf(fCur, "processImageBase64") =>
    \A x \in Base64Texts \ {<<>>} :
      fCur.in \in {x, DataUri("png", x), DataUri("jpeg", x), Envelope(x),
                   Envelope(DataUri("png", x))}
        => fCur.out = BytesOf(x)

\* the data-URI form and the envelope form of the same text were decoded,
\* one after the other, to the bytes 65,66,67,0,0,0 of the text
C24_Witness ==
  /\ IsCallOf(fPrev, "processImageBase64")
  /\ IsCallOf(fCur, "processImageBase64")
  /\ fPrev.in = DataUri("png", <<"QUJD", "AAAA">>)
  /\ fCur.in = Envelope(<<"QUJD", "AAAA">>)
  /\ fPrev.out = [kind |-> "bytes", bytes |-> <<65, 66, 67, 0, 0, 0>>]
  /\ fCur.out = fPrev.out

\* C25: a progress event whose progress value is out of range (150) is
\* clamped to 100 before it reaches the sink: the progress callback of
\* /imagine and of /imagine-pro never receives, and never writes to the
\* reply, a progress above 100.
C25_ProgressClamped ==
  IsCallOf(fCur, "progressCallback") =>
    /\ fCur.out.sink <= 100
    /\ fCur.out.shown <= 100

\* this step arms a reconnect timer
ReconnectScheduled == reconnectTimer = NoTimer /\ reconnectTimer' # NoTimer

\* three reconnects failed in a row and nothing is left to fire
ReconnectsExhausted ==
  /\ reconnectAttempts = maxReconnectAttempts
  /\ wsState \in {"closed", "none"}
  /\ reconnectTimer = NoTimer

\* C26: on a stream closure the monitor schedules a reconnect only if the
\* close code is not 1000, the job is neither terminal nor stopped and
\* reconnectAttempts is below 3; the delay is 2000 ms times the attempt
\* number; reconnectAttempts stays in 0..3; and after 3 reconnect attempts in
\* a row without a successful open the monitor never connects again.
C26_BoundedReconnect ==
  [][/\ WsClose(NormalClosure) => ~ReconnectScheduled
     /\ ReconnectScheduled =>
          /\ \E code \in CloseCodes \ {NormalClosure} : WsClose(code)
          /\ ~isCompleted
          /\ reconnectAttempts < 3
          /\ reconnectAttempts' = reconnectAttempts + 1
          /\ reconnectTimer' = 2000 * reconnectAttempts'
          /\ reconnectTimer' > 2000 * reconnectAttempts
     /\ reconnectAttempts' \in 0..3
     /\ ReconnectsExhausted =>
          /\ wsState' \in {"closed", "none"}
          /\ reconnectAttempts' = reconnectAttempts
          /\ reconnectTimer' = NoTimer]_vars

\* the third reconnect was closed before it opened: the wait is still
\* pending, the job is not terminal, and no timer and no socket is left
C26_Witness ==
  /\ ReconnectsExhausted
  /\ ~isCompleted
  /\ wsState = "closed"
  /\ promise = "pending"

\* the stream of a job that is not terminal is lost for good
StreamLostForGood == ReconnectsExhausted /\ ~isCompleted

\* C27: when the streaming channel is unavailable for a job (the connection
\* cannot be established or is lost for good), the wait of
\* generateImageLocalWithProgressAndMonitor polls GET /task/{id}, so that a
\* completion on the backend is detected without the wait-timeout.
C27_PollingWhenStreamLost ==
  (pc = "await" /\ promise = "pending" /\ StreamLostForGood) => usePolling

\* a wait was settled and the generation returned
SettledAndReturned ==
  /\ taskId # NoJob
  /\ promise \in {"resolved", "rejected"}
  /\ pc \in {"render", "remote", "remoteRender", "done"}

\* C29: when a stream-mode wait is settled by any path (terminal event or
\* wait-timeout), its timeout timer is cancelled and its entry is removed
\* from the PendingWait table; after
\* generateImageLocalWithProgressAndMonitor returns, the table holds no
\* entry and no live timer for that job.
C29_SettledWaitLeavesNothing ==
  /\ waitTimer = taskResolvers
  /\ promise \in {"resolved", "rejected"} =>
       (taskId \notin taskResolvers /\ taskId \notin waitTimer)
  /\ pc \in {"render", "remote", "remoteRender", "done"} =>
       (taskResolvers = {} /\ waitTimer = {})

\* a wait rejected by a 'failed' message of the stream: the generation
\* returned, and neither the entry nor the timer is left
C29_Witness ==
  /\ SettledAndReturned
  /\ settledBy = "failed"
  /\ taskResolvers = {}
  /\ waitTimer = {}

\* C30: when isLocalAIOnline returns, with true or with false, the abort
\* timer it armed for that probe has been cleared (or has fired): no timer
\* of a finished probe is left to fire later.
C30_ProbeTimerCleared ==
  \A i \in DOMAIN hcalls :
    hcalls[i].pc = "done" => hcalls[i].abortTimer # "armed"

\* a message was dropped in this step
Dropped == dropLog = NoDrop /\ dropLog' # NoDrop

\* C28: an inbound stream message that is not a string or Buffer, or is not
\* valid JSON, is dropped: the sink is not invoked, the PendingWait and the
\* monitor's completed flag are unchanged, the connection stays open, no
\* exception escapes the handler, and later valid events are processed
\* normally (the handler leaves the whole state of the command as it was).
C28_MalformedDropped ==
  [][Dropped =>
       /\ dropLog'.how \in {"returned", "caught"}
       /\ UNCHANGED <<sinkCalls, received>>
       /\ UNCHANGED waitVars
       /\ UNCHANGED <<isCompleted, wsState, reconnectAttempts, reconnectTimer, stopTimer>>
       /\ UNCHANGED mainVars]_vars

\* unparseable JSON arrived first and was caught; after it a message
\* reached the sink and a 'completed' message resolved the wait
C28_Witness ==
  /\ dropLog.how = "caught"
  /\ dropLog.at = 0
  /\ Len(sinkCalls) >= 2
  /\ settledBy = "completed"
  /\ promise = "resolved"

\* call i of checkServiceWithCache made a real probe: its checkFn sent the
\* /health request
RealProbe(i) == i \in DOMAIN hcalls /\ hcalls[i].abortTimer # "none"

\* C31: for the key 'localai', checkServiceWithCache issues at most one real
\* probe per minimum re-check interval (5 s): two calls that both probe,
\* bursts that start while an earlier probe is in flight included, start at
\* least MIN_CHECK_INTERVAL apart.
C31_OneProbePerInterval ==
  \A i \in DOMAIN hcalls : \A j \in DOMAIN hcalls :
    (i < j /\ RealProbe(i) /\ RealProbe(j))
      => hcalls[j].start - hcalls[i].start >= MIN_CHECK_INTERVAL

\* C32: once the DELETE of cancelTask has answered 2xx and its body has been
\* read, whatever the body holds, cancelTask has returned true and the
\* DELETE is the only request it sent: no fallback POST.
C32_DeleteOkIsSuccess ==
  (ccall.deleteStatus = "ok" /\ ccall.deleteBody # "none")
    => /\ ccall.pc = "done"
       /\ ccall.result = "true"
       /\ ccall.requests = <<"DELETE">>

\* C33: every suspension point is bounded: a health probe that was started
\* returns, and a cancelTask call that was started returns true or false,
\* even when the backend never answers the DELETE or the POST /cancel.
C33_CancelTerminates ==
  /\ (dcall.pc # "idle") ~> (dcall.pc = "done")
  /\ (ccall.pc # "idle") ~> (ccall.pc = "done" /\ ccall.result \in {"true", "false"})

\* the part of C33 that the abort timer of the health probe carries
ProbeTerminates ==
  (dcall.pc # "idle") ~> (dcall.pc = "done")

\* C39: a health probe request is aborted only by the timer of its own call:
\* whenever a call of isLocalAIOnline ended with its request aborted, the
\* timer that call armed is one that has fired, never one armed by another
\* call on the shared cached controller.
C39_AbortedByOwnTimerOnly ==
  \A i \in DOMAIN hcalls :
    hcalls[i].outcome = "abort" => hcalls[i].abortTimer = "fired"

\* a terminal message has been handed to onmessage
TerminalReceived ==
  \E k \in 1..Len(received) : received[k].status \in TerminalStatuses

\* C37: a terminal event received by the monitor settles the job's
\* PendingWait and marks the monitor completed, also when the event lacks
\* optional fields (message, output_paths) or forwarding it throws: once a
\* terminal message has been received the wait is not pending and the
\* monitor is completed.
C37_TerminalAlwaysSettles ==
  TerminalReceived => (isCompleted /\ promise # "pending")

\* C35: every result of the local path for a job the backend accepted
\* carries that job's id as metadata.requestId, on the success path and on
\* every error path (failed, cancelled, timeout, no output).
C35_ResultCarriesJobId ==
  (taskId # NoJob /\ genResult.kind # "null") => genResult.requestId = taskId

\* a message is handed to onmessage in this step
MessageHandled == received' # received

\* C36: in stream mode the PendingWait of a job is registered before the
\* monitor can process any inbound event of that job: the monitor has no
\* socket while no wait was registered, and every message is handled while
\* the table holds the job's entry or after the wait was settled, so no
\* terminal event is lost between monitor.start() and waitForCompletion().
C36_WaitRegisteredBeforeEvents ==
  [][/\ wsState' # "none" => promise' # "none"
     /\ MessageHandled =>
          (taskId \in taskResolvers \/ promise \in {"resolved", "rejected"})]_vars

\* the very first message of the stream was terminal and settled the wait
C36_Witness ==
  /\ Len(received) = 1
  /\ received[1].status = "completed"
  /\ settledBy = "completed"
  /\ promise = "resolved"
  /\ taskResolvers = {}

\* C38: the monitor's completed flag is monotone, and once it is set (by
\* stop(), forceStop() or a terminal event) the monitor never opens a new
\* connection, also when a reconnect timer was pending or the socket then
\* closes with a code other than 1000, and never invokes the sink again.
C38_CompletedIsFinal ==
  [][isCompleted =>
       /\ isCompleted'
       /\ wsState' # "connecting"
       /\ sinkCalls' = sinkCalls]_vars

\* the monitor was stopped while a reconnect timer was pending, after the
\* sink had been invoked
C38_Witness ==
  /\ isCompleted
  /\ wsState = "none"
  /\ reconnectTimer # NoTimer
  /\ reconnectAttempts >= 1
  /\ Len(sinkCalls) >= 1

\* both generations are in flight: accepted, and their waits pending
BothInFlight ==
  \A c \in Invocations : gens.inv[c].pc = "await" /\ gens.inv[c].promise = "pending"

\* C40: with two /imagine-pro generations of the same user in flight in the
\* same channel, a click on the cancel button of one generation cancels
\* only that one: the click leaves the cancelled flag of the other
\* generation as it was, and a cancel request is sent for a job id only
\* after the button of its own generation was clicked.
C40_ClickCancelsOnlyItsGeneration ==
  [][\A a \in Invocations : \A b \in Invocations \ {a} :
       /\ (BothInFlight /\ PairClick(a))
            => gens'.inv[b].cancelled = gens.inv[b].cancelled
       /\ PairCancelDeferred(b) => b \in gens.clicked]_vars

\* what belongs to generation b in the table and in its monitor: the
\* PendingWait entry, the wait timer, the promise, and the monitor's
\* connection, reconnect counter, timers and completed flag
WaitAndMonitorOf(b) ==
  <<EntriesOf(gens, TaskIdOf(b)), TaskIdOf(b) \in gens.timers, gens.inv[b].promise,
    gens.inv[b].ws, gens.inv[b].reconnectAttempts, gens.inv[b].reconnectTimer,
    gens.inv[b].stopTimer, gens.inv[b].isCompleted>>

\* a step of generation a: a stream event with its resolution or
\* rejection, the wait-timeout, a monitor stop or a step of its connection
\* handles a message, moves the generation on, or changes its wait or its
\* monitor
StepOf(a) ==
  \/ gens'.inv[a].handled # gens.inv[a].handled
  \/ gens'.inv[a].pc # gens.inv[a].pc
  \/ WaitAndMonitorOf(a)' # WaitAndMonitorOf(a)

\* C34: concurrent generations are isolated: with jobs A and B in flight, any
\* event, resolution, rejection, timeout or monitor stop for one of them
\* leaves the other's PendingWait entry, timer and monitor state
\* (connection, reconnect counter, completed flag) unchanged.
C34_GenerationsIsolated ==
  [][\A a \in Invocations : \A b \in Invocations \ {a} :
       (gens.on /\ StepOf(a)) => WaitAndMonitorOf(b)' = WaitAndMonitorOf(b)]_vars

\* the wait of A was resolved by its 'completed' event and its monitor was
\* stopped, while B, accepted and connected, still waits with its entry and
\* its timer in place
C34_Witness ==
  /\ gens.on
  /\ gens.inv["A"].promise = "resolved"
  /\ gens.inv["A"].pc = "returned"
  /\ gens.inv["A"].isCompleted
  /\ gens.inv["B"].promise = "pending"
  /\ gens.inv["B"].ws = "open"
  /\ ~gens.inv["B"].isCompleted
  /\ EntriesOf(gens, "j2") # {}
  /\ "j2" \in gens.timers
  /\ EntriesOf(gens, "j1") = {}
====
